---- MODULE Spec2Model ----
(***************************************************************************)
(* Model of the analytics aggregation engine of rage-analytics             *)
(* (src/src/queries/analytics.js): the data store tables, the profile      *)
(* cache, and one action per exported computation.                         *)
(*                                                                         *)
(* Time: an instant is a number of hours since 2025-01-01T00:00 UTC.       *)
(* Calendar dates ('YYYY-MM-DD' strings of the code) are day numbers since *)
(* 2025-01-01.  Money is a whole number of currency units.                 *)
(***************************************************************************)
EXTENDS Integers, Sequences, FiniteSets, TLC

VARIABLES
    profiles,       \* table profiles: sequence of [id, full_name, phone]
    bookings,       \* table bookings
    creditBatches,  \* table credit_batches
    packages,       \* table packages
    sessions,       \* table sessions
    profilesCache,  \* module variable profilesCache: NullCache or a directory
    loading,        \* the loadProfiles calls suspended at their read
    now,            \* the wall clock (an instant)
    tz,             \* offset of the process's local time from UTC, in hours
    pending,        \* the locals of a computation suspended at an await
    res             \* what the last computation gave its caller

store == <<profiles, bookings, creditBatches, packages, sessions>>
vars == <<profiles, bookings, creditBatches, packages, sessions,
          profilesCache, loading, now, tz, pending, res>>

-----------------------------------------------------------------------------
(* Bounds of the model *)
MaxBatches == 3          \* rows of credit_batches (sales, top buyers)
MaxStoreGrowth == 2      \* rows added to a table while a computation runs
MaxDormantRows == 2      \* rows of each table of the dormancy model
MaxPage == 3             \* page numbers asked for
MaxPageSize == 2         \* page sizes asked for
MaxClockDrift == 1       \* hours the clock advances inside one computation
MaxScheduleRows == 3     \* rows of bookings of the schedule model
MaxLoaders == 2          \* loadProfiles calls in progress at once

-----------------------------------------------------------------------------
(* Generic helpers *)

Min2(a, b) == IF a <= b THEN a ELSE b
Max2(a, b) == IF a >= b THEN a ELSE b

RECURSIVE SumSeq(_)
SumSeq(s) == IF s = <<>> THEN 0 ELSE Head(s) + SumSeq(Tail(s))

\* f applied to every element of s (Array.prototype.map)
MapSeq(F(_), s) == [i \in 1..Len(s) |-> F(s[i])]

\* the elements of s that satisfy P, in order (Array.prototype.filter)
RECURSIVE FilterSeq(_, _)
FilterSeq(P(_), s) ==
    IF s = <<>> THEN <<>>
    ELSE IF P(Head(s)) THEN <<Head(s)>> \o FilterSeq(P, Tail(s))
         ELSE FilterSeq(P, Tail(s))

\* insert x into the sorted sequence s after every element that does not
\* compare greater than it: Before(a, b) is "a must come before b"
RECURSIVE InsertStable(_, _, _)
InsertStable(Before(_, _), s, x) ==
    IF s = <<>> THEN <<x>>
    ELSE IF Before(x, Head(s)) THEN <<x>> \o s
         ELSE <<Head(s)>> \o InsertStable(Before, Tail(s), x)

\* Array.prototype.sort with comparator cmp, where Before(a, b) is
\* cmp(a, b) < 0; the sort is stable (ECMAScript 2019)
RECURSIVE SortStable(_, _)
SortStable(Before(_, _), s) ==
    IF s = <<>> THEN <<>>
    ELSE InsertStable(Before, SortStable(Before, SubSeq(s, 1, Len(s) - 1)),
                      s[Len(s)])

\* Array.prototype.slice(a, b) for 0 <= a, with b possibly beyond the end
Slice(s, a, b) == SubSeq(s, a + 1, Min2(b, Len(s)))

\* Math.round(n / d) for n >= 0, d > 0: halves round up
RoundDiv(n, d) == (2 * n + d) \div (2 * d)

\* all sequences over S of length 0..n
SeqUpTo(S, n) == UNION {[1..k -> S] : k \in 0..n}

-----------------------------------------------------------------------------
(* Calendar (dayjs), for the non-leap years 2025..2027 *)

EpochYear == 2025
HoursPerDay == 24
DaysPerYear == 365
MonthCum == <<0, 31, 59, 90, 120, 151, 181, 212, 243, 273, 304, 334>>

\* the day number of calendar date y-m-d
DateOf(y, m, d) == (y - EpochYear) * DaysPerYear + MonthCum[m] + (d - 1)
\* the instant a 'YYYY-MM-DD' literal denotes to the data store (UTC midnight)
DbInstant(date) == date * HoursPerDay
\* dayjs('YYYY-MM-DD'): midnight of that date in local time
LocalMidnight(date) == date * HoursPerDay - tz
\* the local calendar day of an instant
LocalDay(t) == (t + tz) \div HoursPerDay
YearOfDay(day) == EpochYear + day \div DaysPerYear
MonthOfDay(day) ==
    LET doy == day % DaysPerYear
    IN  CHOOSE m \in 1..12 :
            /\ MonthCum[m] <= doy
            /\ (m = 12 \/ doy < MonthCum[m + 1])
\* dayjs(t).year() and dayjs(t).month() + 1
DayjsYear(t) == YearOfDay(LocalDay(t))
DayjsMonth(t) == MonthOfDay(LocalDay(t))
\* dayjs(date).day(): 0 = Sunday; 2025-01-01 was a Wednesday
DayjsWeekday(date) == (date + 3) % 7

-----------------------------------------------------------------------------
(* What a computation gives its caller *)

\* no computation is suspended
NoCall == [pc |-> "idle"]

\* no computation is awaited: the caller starts one only then, and the
\* requests of this model are served one after the other
Idle == [op |-> "none", status |-> "none"]
\* failed: the tables whose read gave the computation an error
Thrown(name, failed) == [op |-> name, status |-> "error", failed |-> failed]
Returned(name, args, failed, value) ==
    [op |-> name, status |-> "ok", args |-> args, failed |-> failed,
     out |-> value]
\* the outcome of one read, as a set of failed tables
ReadOf(table, ok) == IF ok THEN {} ELSE {table}

\* the caller sends the outcome (res.json or res.status(500).json) and is
\* ready for the next request
Deliver ==
    /\ res # Idle
    /\ res' = Idle
    /\ UNCHANGED <<store, profilesCache, loading, now, tz, pending>>

-----------------------------------------------------------------------------
(* The profile cache: getProfile, formatUserName, formatPhone *)

\* let profilesCache = null
NullCache == <<>>
\* a Map from user id to profile row, held by profilesCache
Loaded(dir) == <<dir>>

\* String.prototype.trim() gives the empty string: only white space
IsBlank(str) == \A i \in 1..Len(str) : SubSeq(str, i, i) = " "
\* String.prototype.substring(0, n)
Substring0(str, n) == SubSeq(str, 1, Min2(n, Len(str)))

\* getProfile(userId): <<>> for null or undefined, else <<profile>>
GetProfile(userId) ==
    IF profilesCache = NullCache THEN <<>>
    ELSE LET dir == profilesCache[1]
         IN  IF userId \in DOMAIN dir THEN <<dir[userId]>> ELSE <<>>

UserNamePrefix == "Usuario "
NoPhone == "Sin teléfono"

\* FormatUserName falling back to the whole id
FormatUserName_WholeId(userId, profile) ==
    IF profile # <<>> /\ ~IsBlank(profile[1].full_name)
    THEN profile[1].full_name
    ELSE UserNamePrefix \o userId

FormatUserName(userId, profile) ==
    IF profile # <<>> /\ ~IsBlank(profile[1].full_name)
    THEN profile[1].full_name
    ELSE UserNamePrefix \o Substring0(userId, 8)

FormatPhone(profile) ==
    IF profile # <<>> /\ ~IsBlank(profile[1].phone)
    THEN profile[1].phone
    ELSE NoPhone

-----------------------------------------------------------------------------
(* Data store reads.  A read either fails (the caller gets {data: null,    *)
(* error}) or gives the rows that pass its filters.                        *)

\* .gte(col, 'YYYY-MM-DD') / .lte(col, 'YYYY-MM-DD') on a timestamp column
CreatedBetween(rows, startDate, endDate) ==
    LET In(r) == /\ r.created_at >= DbInstant(startDate)
                 /\ r.created_at <= DbInstant(endDate)
    IN  FilterSeq(In, rows)

\* .order('created_at', {ascending: true})
OrderByCreatedAsc(rows) ==
    LET Before(a, b) == a.created_at < b.created_at
    IN  SortStable(Before, rows)

-----------------------------------------------------------------------------
(* Sales: getPackageSalesByMonth, getPackageSalesByDateRange *)

UnknownPackage == "Paquete Desconocido"

\* new Map(packages?.map(p => [p.id, p]) || []): the last row of an id wins
PackageMap(pkgs) ==
    [id \in {pkgs[i].id : i \in DOMAIN pkgs} |->
        pkgs[CHOOSE i \in DOMAIN pkgs :
                /\ pkgs[i].id = id
                /\ \A j \in DOMAIN pkgs : pkgs[j].id = id => j <= i]]

\* pkg?.title || fallback
TitleOr(pm, id, fallback) ==
    IF id \in DOMAIN pm /\ pm[id].title # "" THEN pm[id].title ELSE fallback
\* PriceOf charging one unit for a package that is missing
PriceOf_MissingCostsOne(pm, id) == IF id \in DOMAIN pm THEN pm[id].price ELSE 1

\* pkg?.price || 0
PriceOf(pm, id) == IF id \in DOMAIN pm THEN pm[id].price ELSE 0

\* index of the entry of a keyed list whose key is k, 0 when there is none
IndexOfKey(entries, k) ==
    IF \E i \in DOMAIN entries : entries[i].key = k
    THEN CHOOSE i \in DOMAIN entries : entries[i].key = k
    ELSE 0

\* Accumulate that counts the batch creating an entry and loses its amount
Accumulate_FirstAmountLost(entries, k, fresh, amount, credits) ==
    LET i == IndexOfKey(entries, k)
        base == IF i = 0 THEN Append(entries, fresh) ELSE entries
        j == IF i = 0 THEN Len(base) ELSE i
    IN  [base EXCEPT ![j].count = @ + 1,
                     ![j].revenue = IF i = 0 THEN @ ELSE @ + amount,
                     ![j].credits = @ + credits]

\* obj[k] = obj[k] with count, revenue and credits increased; the entry is
\* created from fresh (appended: insertion order of the keys) when absent
Accumulate(entries, k, fresh, amount, credits) ==
    LET i == IndexOfKey(entries, k)
        base == IF i = 0 THEN Append(entries, fresh) ELSE entries
        j == IF i = 0 THEN Len(base) ELSE i
    IN  [base EXCEPT ![j].count = @ + 1,
                     ![j].revenue = @ + amount,
                     ![j].credits = @ + credits]

\* months.forEach((month, i) => salesByMonth[i + 1] = {month, count: 0, ...})
SeededMonths ==
    [m \in 1..12 |-> [key |-> m, month |-> m, count |-> 0, revenue |-> 0,
                      credits |-> 0]]

EmptySales(seed) ==
    [byMonth |-> seed, byType |-> <<>>, totalRevenue |-> 0,
     totalPackages |-> 0]

\* SalesStepYear with a batch of an unknown package left out of its month
SalesStepYear_SkipUnknownMonth(acc, batch, pm) ==
    LET month == DayjsMonth(batch.created_at)
        packageName == TitleOr(pm, batch.package_id, UnknownPackage)
        amount == PriceOf(pm, batch.package_id)
        freshType == [key |-> packageName, count |-> 0, revenue |-> 0,
                      credits |-> 0, price |-> PriceOf(pm, batch.package_id)]
    IN  [byMonth |-> IF batch.package_id \in DOMAIN pm
                     THEN Accumulate(acc.byMonth, month, SeededMonths[month],
                                     amount, batch.credits_total)
                     ELSE acc.byMonth,
         byType |-> Accumulate(acc.byType, packageName, freshType, amount,
                               batch.credits_total),
         totalRevenue |-> acc.totalRevenue + amount,
         totalPackages |-> acc.totalPackages + 1]

\* the body of creditBatches.forEach of getPackageSalesByMonth
SalesStepYear(acc, batch, pm) ==
    LET month == DayjsMonth(batch.created_at)
        packageName == TitleOr(pm, batch.package_id, UnknownPackage)
        amount == PriceOf(pm, batch.package_id)
        freshType == [key |-> packageName, count |-> 0, revenue |-> 0,
                      credits |-> 0, price |-> PriceOf(pm, batch.package_id)]
    IN  [byMonth |-> Accumulate(acc.byMonth, month, SeededMonths[month],
                                amount, batch.credits_total),
         byType |-> Accumulate(acc.byType, packageName, freshType, amount,
                               batch.credits_total),
         totalRevenue |-> acc.totalRevenue + amount,
         totalPackages |-> acc.totalPackages + 1]

\* SalesStepRange with the month buckets keyed by the month alone
SalesStepRange_KeyByMonthOnly(acc, batch, pm) ==
    LET month == DayjsMonth(batch.created_at)
        year == DayjsYear(batch.created_at)
        packageName == TitleOr(pm, batch.package_id, UnknownPackage)
        amount == PriceOf(pm, batch.package_id)
        freshMonth == [key |-> month - 1, month |-> month, year |-> year,
                       count |-> 0, revenue |-> 0, credits |-> 0]
        freshType == [key |-> packageName, count |-> 0, revenue |-> 0,
                      credits |-> 0, price |-> PriceOf(pm, batch.package_id)]
    IN  [byMonth |-> Accumulate(acc.byMonth, month - 1, freshMonth, amount,
                                batch.credits_total),
         byType |-> Accumulate(acc.byType, packageName, freshType, amount,
                               batch.credits_total),
         totalRevenue |-> acc.totalRevenue + amount,
         totalPackages |-> acc.totalPackages + 1]

\* the body of creditBatches.forEach of getPackageSalesByDateRange
SalesStepRange(acc, batch, pm) ==
    LET month == DayjsMonth(batch.created_at)
        year == DayjsYear(batch.created_at)
        monthKey == <<year, month - 1>>
        packageName == TitleOr(pm, batch.package_id, UnknownPackage)
        amount == PriceOf(pm, batch.package_id)
        freshMonth == [key |-> monthKey, month |-> month, year |-> year,
                       count |-> 0, revenue |-> 0, credits |-> 0]
        freshType == [key |-> packageName, count |-> 0, revenue |-> 0,
                      credits |-> 0, price |-> PriceOf(pm, batch.package_id)]
    IN  [byMonth |-> Accumulate(acc.byMonth, monthKey, freshMonth, amount,
                                batch.credits_total),
         byType |-> Accumulate(acc.byType, packageName, freshType, amount,
                               batch.credits_total),
         totalRevenue |-> acc.totalRevenue + amount,
         totalPackages |-> acc.totalPackages + 1]

RECURSIVE SalesFold(_, _, _, _)
SalesFold(Step(_, _, _), acc, batches, pm) ==
    IF batches = <<>> THEN acc
    ELSE SalesFold(Step, Step(acc, Head(batches), pm), Tail(batches), pm)

\* .map(([name, data]) => ({name, ...data})).sort((a, b) => b.count - a.count)
ByPackageType(byType) ==
    LET Named(e) == [name |-> e.key, count |-> e.count, revenue |-> e.revenue,
                     credits |-> e.credits, price |-> e.price]
        Before(a, b) == b.count - a.count < 0
    IN  SortStable(Before, MapSeq(Named, byType))

\* the result of getPackageSalesByMonth(year) on the fetched rows
SalesByMonthReport(year, batches, pkgs) ==
    LET acc == SalesFold(SalesStepYear, EmptySales(SeededMonths), batches,
                         PackageMap(pkgs))
        Bucket(e) == [month |-> e.month, count |-> e.count,
                      revenue |-> e.revenue, credits |-> e.credits]
    IN  [year |-> year,
         total_packages |-> acc.totalPackages,
         total_revenue |-> acc.totalRevenue,
         by_month |-> MapSeq(Bucket, acc.byMonth),
         by_package_type |-> ByPackageType(acc.byType)]

\* the result of getPackageSalesByDateRange(start, end) on the fetched rows
SalesByDateRangeReport(startDate, endDate, batches, pkgs) ==
    LET acc == SalesFold(SalesStepRange, EmptySales(<<>>), batches,
                         PackageMap(pkgs))
        Bucket(e) == [month |-> e.month, year |-> e.year, count |-> e.count,
                      revenue |-> e.revenue, credits |-> e.credits]
        Before(a, b) == IF a.year # b.year THEN a.year - b.year < 0
                        ELSE a.month - b.month < 0
    IN  [startDate |-> startDate, endDate |-> endDate,
         total_packages |-> acc.totalPackages,
         total_revenue |-> acc.totalRevenue,
         by_month |-> SortStable(Before, MapSeq(Bucket, acc.byMonth)),
         by_package_type |-> ByPackageType(acc.byType)]

\* the rows both sales entry points fetch from credit_batches
SalesBatches(startDate, endDate) ==
    OrderByCreatedAsc(CreatedBetween(creditBatches, startDate, endDate))

GetPackageSalesByMonth(year, batchesOk, pkgOk) ==
    /\ res = Idle
    /\ res' = IF ~batchesOk
              THEN Thrown("getPackageSalesByMonth", {"credit_batches"})
              ELSE IF ~pkgOk
              THEN Thrown("getPackageSalesByMonth", {"packages"})
              ELSE Returned("getPackageSalesByMonth", <<year>>, {},
                       SalesByMonthReport(year,
                           SalesBatches(DateOf(year, 1, 1),
                                        DateOf(year, 12, 31)),
                           packages))
    /\ UNCHANGED <<store, profilesCache, loading, now, tz, pending>>

GetPackageSalesByDateRange(startDate, endDate, batchesOk, pkgOk) ==
    /\ res = Idle
    /\ res' = IF ~batchesOk
              THEN Thrown("getPackageSalesByDateRange", {"credit_batches"})
              ELSE IF ~pkgOk
              THEN Thrown("getPackageSalesByDateRange", {"packages"})
              ELSE Returned("getPackageSalesByDateRange",
                       <<startDate, endDate>>, {},
                       SalesByDateRangeReport(startDate, endDate,
                           SalesBatches(startDate, endDate), packages))
    /\ UNCHANGED <<store, profilesCache, loading, now, tz, pending>>

-----------------------------------------------------------------------------
(* Specification of the sales entry points: the tables are drawn from small *)
(* sets, then the two computations run on them with every read outcome.     *)

\* instants of purchases: 2025-12-15 09:00, 2026-01-01 02:00,
\* 2026-12-31 00:00 and 2026-12-31 12:00 (UTC)
SaleTimes ==
    {DbInstant(DateOf(2025, 12, 15)) + 9, DbInstant(DateOf(2026, 1, 1)) + 2,
     DbInstant(DateOf(2026, 12, 31)), DbInstant(DateOf(2026, 12, 31)) + 12}

\* package 3 is referenced by batches and is in none of the package tables
BatchPackageIds == {1, 2, 3}

\* credits_total of a batch: the credits its package granted when bought
CreditsGranted == <<5, 10, 8>>

SaleRows ==
    {[user_id |-> "u1", package_id |-> p, credits_total |-> CreditsGranted[p],
      created_at |-> t] : p \in BatchPackageIds, t \in SaleTimes}

\* package tables: none; two titles; a shared title; an empty title
PackageTables ==
    {<<>>,
     <<[id |-> 1, title |-> "A", price |-> 100],
       [id |-> 2, title |-> "B", price |-> 50]>>,
     <<[id |-> 1, title |-> "A", price |-> 100],
       [id |-> 2, title |-> "A", price |-> 150]>>,
     <<[id |-> 1, title |-> "A", price |-> 100],
       [id |-> 2, title |-> "", price |-> 70]>>}

TimeZones == {0, -6}

SalesYears == {2026}
SalesRanges ==
    {<<DateOf(2026, 1, 1), DateOf(2026, 12, 31)>>,
     <<DateOf(2025, 12, 1), DateOf(2026, 12, 31)>>}

IsCreatedAscending(rows) ==
    \A i \in 1..(Len(rows) - 1) : rows[i].created_at <= rows[i + 1].created_at

InitSales ==
    /\ creditBatches \in {b \in SeqUpTo(SaleRows, MaxBatches) :
                            IsCreatedAscending(b)}
    /\ packages \in PackageTables
    /\ tz \in TimeZones
    /\ profiles = <<>> /\ bookings = <<>> /\ sessions = <<>>
    /\ profilesCache = <<>>
    /\ now = DbInstant(DateOf(2027, 1, 1))
    /\ loading = {}
    /\ pending = NoCall
    /\ res = Idle

NextSales ==
    \/ \E year \in SalesYears, batchesOk \in BOOLEAN, pkgOk \in BOOLEAN :
          GetPackageSalesByMonth(year, batchesOk, pkgOk)
    \/ \E r \in SalesRanges, batchesOk \in BOOLEAN, pkgOk \in BOOLEAN :
          GetPackageSalesByDateRange(r[1], r[2], batchesOk, pkgOk)
    \/ Deliver

SpecSales == InitSales /\ [][NextSales]_vars

-----------------------------------------------------------------------------
(* Claims about the sales reports *)

SumOver(F(_), s) == SumSeq(MapSeq(F, s))
CountOf(e) == e.count
RevenueOf(e) == e.revenue

IsSalesReport ==
    /\ res.status = "ok"
    /\ res.op \in {"getPackageSalesByMonth", "getPackageSalesByDateRange"}

\* the rows the computation that produced res fetched from credit_batches
FetchedForRes ==
    IF res.op = "getPackageSalesByMonth"
    THEN SalesBatches(DateOf(res.args[1], 1, 1), DateOf(res.args[1], 12, 31))
    ELSE SalesBatches(res.args[1], res.args[2])

\* C1: in every sales report (by year and by date range) the revenue of the
\* by_month buckets adds up to total_revenue, their counts add up to
\* total_packages, and total_packages is the number of fetched batches.
C1_MonthBucketsAddUp ==
    IsSalesReport =>
        /\ SumOver(RevenueOf, res.out.by_month) = res.out.total_revenue
        /\ SumOver(CountOf, res.out.by_month) = res.out.total_packages
        /\ res.out.total_packages = Len(FetchedForRes)

\* a range report whose revenue is spread over at least two month buckets
C1_Witness ==
    /\ IsSalesReport
    /\ res.op = "getPackageSalesByDateRange"
    /\ \E i, j \in DOMAIN res.out.by_month :
          /\ i # j
          /\ res.out.by_month[i].revenue > 0
          /\ res.out.by_month[j].revenue > 0

-----------------------------------------------------------------------------
(* Top buyers: getTopBuyers, getTopBuyersByDateRange, getMostFrequent *)

UnknownTitle == "Desconocido"
NoFavorite == "N/A"

\* counts[item] = (counts[item] || 0) + 1 over arr: the distinct items in
\* order of first occurrence, each with its number of occurrences
RECURSIVE CountItems(_, _)
CountItems(counts, arr) ==
    IF arr = <<>> THEN counts
    ELSE LET i == IndexOfKey(counts, Head(arr))
         IN  CountItems(
                 IF i = 0 THEN Append(counts, [key |-> Head(arr), n |-> 1])
                 ELSE [counts EXCEPT ![i].n = @ + 1],
                 Tail(arr))

\* the decimal digits; the value of a digit is its position minus one
Digits == "0123456789"
IsDigit(c) == \E d \in 1..Len(Digits) : SubSeq(Digits, d, d) = c
DigitValue(c) == (CHOOSE d \in 1..Len(Digits) : SubSeq(Digits, d, d) = c) - 1

\* a property name that is an array index: the canonical decimal form of a
\* natural number below 2^32 - 1 (no sign, no leading zero); names of ten
\* digits are left to the string keys
IsArrayIndex(k) ==
    /\ Len(k) \in 1..9
    /\ \A i \in 1..Len(k) : IsDigit(SubSeq(k, i, i))
    /\ Len(k) > 1 => SubSeq(k, 1, 1) # "0"

RECURSIVE ArrayIndexValue(_)
ArrayIndexValue(k) ==
    IF Len(k) = 0 THEN 0
    ELSE 10 * ArrayIndexValue(SubSeq(k, 1, Len(k) - 1))
         + DigitValue(SubSeq(k, Len(k), Len(k)))

\* OwnPropertyOrder listing the keys in insertion order whatever they are
OwnPropertyOrder_InsertionOnly(entries) == entries

\* the order in which Object.entries, Object.values and Object.keys list
\* the properties of an object: array indices in ascending numeric order,
\* then the other string keys in insertion order
OwnPropertyOrder(entries) ==
    LET Before(a, b) ==
            /\ IsArrayIndex(a.key)
            /\ (IsArrayIndex(b.key)
                   => ArrayIndexValue(a.key) < ArrayIndexValue(b.key))
    IN  SortStable(Before, entries)

\* Object.entries(counts).sort((a, b) => b[1] - a[1])[0]?.[0] || 'N/A'
GetMostFrequent(arr) ==
    IF arr = <<>> THEN NoFavorite
    ELSE LET Before(a, b) == b.n - a.n < 0
             sorted == SortStable(Before,
                           OwnPropertyOrder(CountItems(<<>>, arr)))
         IN  IF sorted[1].key = "" THEN NoFavorite ELSE sorted[1].key

\* the body of creditBatches.forEach of both top-buyer functions; userStats
\* is kept in the insertion order of its keys
BuyerStep(userStats, batch, pm) ==
    LET amount == PriceOf(pm, batch.package_id)
        i == IndexOfKey(userStats, batch.user_id)
        fresh == [key |-> batch.user_id, user_id |-> batch.user_id,
                  total_purchases |-> 0, total_spent |-> 0,
                  total_credits |-> 0, packages |-> <<>>]
        base == IF i = 0 THEN Append(userStats, fresh) ELSE userStats
        j == IF i = 0 THEN Len(base) ELSE i
    IN  [base EXCEPT
            ![j].total_purchases = @ + 1,
            ![j].total_spent = @ + amount,
            ![j].total_credits = @ + batch.credits_total,
            ![j].packages =
                Append(@, TitleOr(pm, batch.package_id, UnknownTitle))]

RECURSIVE BuyerFold(_, _, _)
BuyerFold(userStats, batches, pm) ==
    IF batches = <<>> THEN userStats
    ELSE BuyerFold(BuyerStep(userStats, Head(batches), pm), Tail(batches), pm)

\* SliceLimit keeping one entry more
SliceLimit_OneMore(s, limit) == Slice(s, 0, limit + 1)

\* Array.prototype.slice(0, limit): a negative limit counts from the end
SliceLimit(s, limit) ==
    IF limit >= 0 THEN Slice(s, 0, limit)
    ELSE Slice(s, 0, Max2(Len(s) + limit, 0))

\* RankBuyers ordering by the number of purchases instead of the amount
RankBuyers_ByPurchases(userStats) ==
    LET Before(a, b) == b.total_purchases - a.total_purchases < 0
    IN  SortStable(Before, userStats)

\* Object.values(userStats).sort((a, b) => b.total_spent - a.total_spent)
RankBuyers(userStats) ==
    LET Before(a, b) == b.total_spent - a.total_spent < 0
    IN  SortStable(Before, userStats)

\* topBuyers.map((buyer, index) => ({rank: index + 1, ...buyer, ...}))
BuyerEntry(buyer, index) ==
    [rank |-> index + 1,
     user_id |-> buyer.user_id,
     total_purchases |-> buyer.total_purchases,
     total_spent |-> buyer.total_spent,
     total_credits |-> buyer.total_credits,
     packages |-> buyer.packages,
     full_name |-> FormatUserName(buyer.user_id, GetProfile(buyer.user_id)),
     phone |-> FormatPhone(GetProfile(buyer.user_id)),
     favorite_package |-> GetMostFrequent(buyer.packages)]

\* the list both top-buyer functions return for the fetched rows
TopBuyersList(batches, pkgs, limit) ==
    LET topBuyers == SliceLimit(RankBuyers(BuyerFold(<<>>, batches,
                                                     PackageMap(pkgs))),
                                limit)
    IN  [i \in 1..Len(topBuyers) |-> BuyerEntry(topBuyers[i], i - 1)]

\* a failed packages read is not looked at: packages is null
PackagesOrNone(pkgOk) == IF pkgOk THEN packages ELSE <<>>

GetTopBuyers(year, limit, batchesOk, pkgOk) ==
    /\ res = Idle
    /\ res' = IF ~batchesOk THEN Thrown("getTopBuyers", {"credit_batches"})
              ELSE Returned("getTopBuyers", <<year, limit>>,
                       ReadOf("packages", pkgOk),
                       TopBuyersList(
                           CreatedBetween(creditBatches, DateOf(year, 1, 1),
                                          DateOf(year, 12, 31)),
                           PackagesOrNone(pkgOk), limit))
    /\ UNCHANGED <<store, profilesCache, loading, now, tz, pending>>

GetTopBuyersByDateRange(startDate, endDate, limit, batchesOk, pkgOk) ==
    /\ res = Idle
    /\ res' = IF ~batchesOk
              THEN Thrown("getTopBuyersByDateRange", {"credit_batches"})
              ELSE Returned("getTopBuyersByDateRange",
                       <<startDate, endDate, limit>>,
                       ReadOf("packages", pkgOk),
                       TopBuyersList(
                           CreatedBetween(creditBatches, startDate, endDate),
                           PackagesOrNone(pkgOk), limit))
    /\ UNCHANGED <<store, profilesCache, loading, now, tz, pending>>

-----------------------------------------------------------------------------
(* Specification of the top-buyer functions *)

\* three purchasers; the first two ids share their first eight characters
UserIds == {"a1b2c3d4-0001", "a1b2c3d4-0002", "e5f6"}

\* a profile with name and phone, a profile with both blank, and no profile
\* for the third user
SampleDirectory ==
    [id \in {"a1b2c3d4-0001", "a1b2c3d4-0002"} |->
        IF id = "a1b2c3d4-0001"
        THEN [id |-> id, full_name |-> "Ana Ruiz", phone |-> "555-0101"]
        ELSE [id |-> id, full_name |-> "  ", phone |-> ""]]

\* purchases on 2026-06-10 10:00 by every user of packages 1 and 2, and one
\* on 2026-12-31 12:00
BuyerRows ==
    {[user_id |-> u, package_id |-> p, credits_total |-> CreditsGranted[p],
      created_at |-> DbInstant(DateOf(2026, 6, 10)) + 10] :
        u \in UserIds, p \in {1, 2}}
    \cup {[user_id |-> "e5f6", package_id |-> 1,
           credits_total |-> CreditsGranted[1],
           created_at |-> DbInstant(DateOf(2026, 12, 31)) + 12]}

\* two priced titles; or only package 1, so that package 2 is missing
BuyerPackageTables ==
    {<<[id |-> 1, title |-> "A", price |-> 100],
       [id |-> 2, title |-> "B", price |-> 50]>>,
     <<[id |-> 1, title |-> "A", price |-> 100]>>}

MaxLimit == 3
Limits == -1..MaxLimit

InitBuyers ==
    /\ creditBatches \in SeqUpTo(BuyerRows, MaxBatches)
    /\ packages \in BuyerPackageTables
    /\ profilesCache = Loaded(SampleDirectory)
    /\ tz = 0
    /\ profiles = <<>> /\ bookings = <<>> /\ sessions = <<>>
    /\ now = DbInstant(DateOf(2027, 1, 1))
    /\ loading = {}
    /\ pending = NoCall
    /\ res = Idle

NextBuyers ==
    \/ \E limit \in Limits, batchesOk \in BOOLEAN, pkgOk \in BOOLEAN :
          GetTopBuyers(2026, limit, batchesOk, pkgOk)
    \/ \E limit \in Limits, batchesOk \in BOOLEAN, pkgOk \in BOOLEAN :
          GetTopBuyersByDateRange(DateOf(2026, 1, 1), DateOf(2027, 1, 1),
                                  limit, batchesOk, pkgOk)
    \/ Deliver

SpecBuyers == InitBuyers /\ [][NextBuyers]_vars

IsBuyerList ==
    /\ res.status = "ok"
    /\ res.op \in {"getTopBuyers", "getTopBuyersByDateRange"}

\* C3: every list of top buyers has ranks 1..len in list order (no gap, no
\* shared rank, also between buyers of equal total_spent) and total_spent
\* never increases from an entry to the next.
C3_RanksDenseAndSpentSorted ==
    IsBuyerList =>
        /\ \A i \in DOMAIN res.out : res.out[i].rank = i
        /\ \A i \in 1..(Len(res.out) - 1) :
              res.out[i].total_spent >= res.out[i + 1].total_spent

\* a list of three buyers, two of them with the same total_spent and the
\* third with less, from rows fetched in another order
C3_Witness ==
    /\ IsBuyerList
    /\ Len(res.out) = 3
    /\ res.out[1].total_spent = res.out[2].total_spent
    /\ res.out[2].total_spent > res.out[3].total_spent
    /\ creditBatches[1].user_id = res.out[3].user_id

-----------------------------------------------------------------------------
(* Retention: getRetentionMetrics.  Its four reads are awaited one after    *)
(* the other; the store may change between them.  No read's error is looked *)
(* at: a failed read leaves its data null.                                  *)

\* a null session_date
NoDate == -1
RollingWindowDays == 30

\* new Set(rows?.map(b => b.user_id)).size
DistinctUsers(rows) == Cardinality({rows[i].user_id : i \in DOMAIN rows})

\* what a read leaves in data: the rows, or null (no rows are iterated)
DataOrNull(ok, rows) == IF ok THEN rows ELSE <<>>

\* .gte('session_date', thirtyDaysAgo), a 'YYYY-MM-DD' string of local time
BookingsSince(rows, sinceDate) ==
    LET In(b) == b.session_date # NoDate /\ b.session_date >= sinceDate
    IN  FilterSeq(In, rows)

\* allBatches.filter(b => dayjs(b.created_at).isAfter(now.subtract(30, 'day')))
BatchesAfter(rows, instant) ==
    LET In(b) == b.created_at > instant
    IN  FilterSeq(In, rows)

\* .gt('credits_remaining', 0)
BatchesWithCredits(rows) ==
    LET In(b) == b.credits_remaining > 0
    IN  FilterSeq(In, rows)

\* ((part / whole) * 100).toFixed(1) as a number of tenths of a percent,
\* and 0 when whole is 0
RateTenths(part, whole) ==
    IF whole > 0 THEN RoundDiv(1000 * part, whole) ELSE 0

\* ProfileCount that never looks at the cache
ProfileCount_AlwaysUnique(totalUniqueUsers) == totalUniqueUsers

\* profilesCache?.size || totalUniqueUsers
ProfileCount(totalUniqueUsers) ==
    IF profilesCache # NullCache /\ DOMAIN profilesCache[1] # {}
    THEN Cardinality(DOMAIN profilesCache[1])
    ELSE totalUniqueUsers

\* const now = dayjs(); ...; await the read of all bookings
RetentionReadAllBookings(ok) ==
    /\ res = Idle /\ pending = NoCall
    /\ pending' = [pc |-> "recentBookings", now |-> now,
                   failed |-> ReadOf("bookings", ok),
                   totalUniqueUsers |-> DistinctUsers(DataOrNull(ok, bookings))]
    /\ UNCHANGED <<store, profilesCache, loading, now, tz, res>>

RetentionReadRecentBookings(ok) ==
    /\ pending.pc = "recentBookings"
    /\ pending' =
          [pc |-> "allBatches", now |-> pending.now,
           failed |-> pending.failed \cup ReadOf("bookings", ok),
           totalUniqueUsers |-> pending.totalUniqueUsers,
           activeUsers30 |->
               DistinctUsers(DataOrNull(ok,
                   BookingsSince(bookings,
                       LocalDay(pending.now
                                - RollingWindowDays * HoursPerDay))))]
    /\ UNCHANGED <<store, profilesCache, loading, now, tz, res>>

RetentionReadAllBatches(ok) ==
    /\ pending.pc = "allBatches"
    /\ LET allBatches == DataOrNull(ok, creditBatches)
       IN  pending' =
              [pc |-> "activeBatches", now |-> pending.now,
               failed |-> pending.failed \cup ReadOf("credit_batches", ok),
               totalUniqueUsers |-> pending.totalUniqueUsers,
               activeUsers30 |-> pending.activeUsers30,
               buyersTotal |-> DistinctUsers(allBatches),
               buyers30 |->
                   DistinctUsers(BatchesAfter(allBatches,
                       pending.now - RollingWindowDays * HoursPerDay))]
    /\ UNCHANGED <<store, profilesCache, loading, now, tz, res>>

CreditsRemainingOf(b) == b.credits_remaining

RetentionReadActiveBatches(ok) ==
    /\ pending.pc = "activeBatches"
    /\ LET activeBatches == DataOrNull(ok, BatchesWithCredits(creditBatches))
       IN  res' = Returned("getRetentionMetrics", <<>>,
              pending.failed \cup ReadOf("credit_batches", ok),
              [total_registered_users |->
                   ProfileCount(pending.totalUniqueUsers),
               total_unique_users |-> pending.totalUniqueUsers,
               active_users_30_days |-> pending.activeUsers30,
               total_buyers_ever |-> pending.buyersTotal,
               buyers_last_30_days |-> pending.buyers30,
               users_with_credits |-> DistinctUsers(activeBatches),
               total_credits_pending |->
                   SumSeq([i \in DOMAIN activeBatches |->
                              activeBatches[i].credits_remaining]),
               retention_rate |-> RateTenths(pending.activeUsers30,
                                             pending.totalUniqueUsers),
               conversion_rate |-> RateTenths(pending.buyersTotal,
                                              pending.totalUniqueUsers)])
    /\ pending' = NoCall
    /\ UNCHANGED <<store, profilesCache, loading, now, tz>>

\* another client of the data store adds a booking or a credit batch
InsertBooking(row) ==
    /\ Len(bookings) < MaxStoreGrowth
    /\ bookings' = Append(bookings, row)
    /\ UNCHANGED <<profiles, creditBatches, packages, sessions,
                   profilesCache, loading, now, tz, pending, res>>

InsertBatch(row) ==
    /\ Len(creditBatches) < MaxStoreGrowth
    /\ creditBatches' = Append(creditBatches, row)
    /\ UNCHANGED <<profiles, bookings, packages, sessions,
                   profilesCache, loading, now, tz, pending, res>>

-----------------------------------------------------------------------------
(* Specification of getRetentionMetrics: the tables start empty and grow    *)
(* while the computation is between its reads.                              *)

RetentionNow == DbInstant(DateOf(2026, 3, 1)) + 12

\* bookings of two users, in the last 30 days or last year
RetentionBookingRows ==
    {[user_id |-> u, session_date |-> d, created_at |-> DbInstant(d) - 48,
      status |-> "active", session_time |-> "09:00:00",
      total_attendees |-> 1] :
        u \in {"a1b2c3d4-0001", "a1b2c3d4-0002"},
        d \in {DateOf(2026, 2, 20), DateOf(2025, 6, 1)}}

\* purchases of a user who books and of one who never booked
RetentionBatchRows ==
    {[user_id |-> u, package_id |-> 1, credits_total |-> 5,
      credits_remaining |-> c, created_at |-> t] :
        u \in {"a1b2c3d4-0001", "e5f6"},
        c \in {0, 3},
        t \in {DbInstant(DateOf(2026, 2, 25)) + 10}}

InitRetention ==
    /\ bookings = <<>> /\ creditBatches = <<>>
    /\ profiles = <<>> /\ packages = <<>> /\ sessions = <<>>
    /\ profilesCache \in {NullCache, Loaded(<<>>), Loaded(SampleDirectory)}
    /\ now = RetentionNow
    /\ tz = 0
    /\ loading = {}
    /\ pending = NoCall
    /\ res = Idle

NextRetention ==
    \/ \E ok \in BOOLEAN : RetentionReadAllBookings(ok)
    \/ \E ok \in BOOLEAN : RetentionReadRecentBookings(ok)
    \/ \E ok \in BOOLEAN : RetentionReadAllBatches(ok)
    \/ \E ok \in BOOLEAN : RetentionReadActiveBatches(ok)
    \/ \E row \in RetentionBookingRows : InsertBooking(row)
    \/ \E row \in RetentionBatchRows : InsertBatch(row)
    \/ Deliver

SpecRetention == InitRetention /\ [][NextRetention]_vars

IsRetentionReport ==
    res.status = "ok" /\ res.op = "getRetentionMetrics"

\* C4: retention_rate and conversion_rate (in tenths of a percent) lie in
\* [0, 100] percent for any bookings and credit batches, and are 0 when
\* total_unique_users is 0.
C4_RatesWithinPercent ==
    IsRetentionReport =>
        /\ res.out.retention_rate \in 0..1000
        /\ res.out.conversion_rate \in 0..1000
        /\ res.out.total_unique_users = 0 =>
              res.out.retention_rate = 0 /\ res.out.conversion_rate = 0

-----------------------------------------------------------------------------
(* Dormant clients: getDormantClients, getDormantClientsPaginated *)

\* a value of a 'date' column and a value of a timestamp column
DateValue(d) == [kind |-> "date", at |-> d]
Timestamp(t) == [kind |-> "timestamp", at |-> t]
\* dayjs(value): a date string is midnight of local time
Dayjs(value) ==
    IF value.kind = "date" THEN LocalMidnight(value.at) ELSE value.at

\* dayjs(a).diff(dayjs(b), 'day'): whole days, truncated toward zero
DiffDays(a, b) ==
    IF a >= b THEN (a - b) \div HoursPerDay
    ELSE -((b - a) \div HoursPerDay)

\* ActiveBookingsBySessionDesc without the filter on status
ActiveBookingsBySessionDesc_AnyStatus(rows) ==
    LET Before(a, b) ==
            /\ b.session_date # NoDate
            /\ (a.session_date = NoDate \/ a.session_date > b.session_date)
    IN  SortStable(Before, rows)

\* .eq('status', 'active').order('session_date', {ascending: false}):
\* rows without a session_date come first
ActiveBookingsBySessionDesc(rows) ==
    LET Active(b) == b.status = "active"
        Before(a, b) ==
            /\ b.session_date # NoDate
            /\ (a.session_date = NoDate \/ a.session_date > b.session_date)
    IN  SortStable(Before, FilterSeq(Active, rows))

\* .order('created_at', {ascending: false})
OrderByCreatedDesc(rows) ==
    LET Before(a, b) == a.created_at > b.created_at
    IN  SortStable(Before, rows)

\* b.session_date || b.created_at
BookingDate(b) ==
    IF b.session_date # NoDate THEN DateValue(b.session_date)
    ELSE Timestamp(b.created_at)

\* NoteActivity keeping the event seen last, whatever its date
NoteActivity_LastSeenWins(userActivity, userId, date, type) ==
    LET i == IndexOfKey(userActivity, userId)
    IN  IF i = 0
        THEN Append(userActivity, [key |-> userId, date |-> date,
                                   type |-> type])
        ELSE [userActivity EXCEPT ![i].date = date, ![i].type = type]

\* if (!current || dayjs(date).isAfter(dayjs(current.date)))
\*     userActivity.set(userId, {date, type})
\* on a Map kept as the list of its entries in insertion order
NoteActivity(userActivity, userId, date, type) ==
    LET i == IndexOfKey(userActivity, userId)
    IN  IF i = 0
        THEN Append(userActivity, [key |-> userId, date |-> date,
                                   type |-> type])
        ELSE IF Dayjs(date) > Dayjs(userActivity[i].date)
             THEN [userActivity EXCEPT ![i].date = date, ![i].type = type]
             ELSE userActivity

RECURSIVE NoteBookings(_, _)
NoteBookings(userActivity, rows) ==
    IF rows = <<>> THEN userActivity
    ELSE NoteBookings(NoteActivity(userActivity, Head(rows).user_id,
                                   BookingDate(Head(rows)), "booking"),
                      Tail(rows))

RECURSIVE NoteBatches(_, _)
NoteBatches(userActivity, rows) ==
    IF rows = <<>> THEN userActivity
    ELSE NoteBatches(NoteActivity(userActivity, Head(rows).user_id,
                                  Timestamp(Head(rows).created_at),
                                  "purchase"),
                     Tail(rows))

\* IsDormant taking the users active after the cutoff
IsDormant_ActiveSince(date, cutoffDate) == Dayjs(date) > cutoffDate

\* IsDormant with the cutoff a day late
IsDormant_DayLate(date, cutoffDate) == Dayjs(date) < cutoffDate + HoursPerDay

\* IsDormant that also takes an activity exactly at the cutoff
IsDormant_AtCutoffToo(date, cutoffDate) == Dayjs(date) <= cutoffDate

\* dayjs(activity.date).isBefore(cutoffDate)
IsDormant(date, cutoffDate) == Dayjs(date) < cutoffDate

\* DormantList putting the later of two clients of equal days_inactive first
DormantList_TiesReversed(userActivity, daysInactive, cutoffClock, diffClock) ==
    LET cutoffDate == cutoffClock - daysInactive * HoursPerDay
        Dormant(a) == IsDormant(a.date, cutoffDate)
        Client(a) ==
            [user_id |-> a.key,
             last_activity |-> a.date,
             last_activity_type |-> a.type,
             days_inactive |-> DiffDays(diffClock, Dayjs(a.date)),
             full_name |-> FormatUserName(a.key, GetProfile(a.key)),
             phone |-> FormatPhone(GetProfile(a.key))]
        Before(a, b) == b.days_inactive - a.days_inactive <= 0
    IN  SortStable(Before, MapSeq(Client, FilterSeq(Dormant, userActivity)))

\* the clients list: cutoffClock and diffClock are what dayjs() gave for
\* the cutoff and for days_inactive
DormantList(userActivity, daysInactive, cutoffClock, diffClock) ==
    LET cutoffDate == cutoffClock - daysInactive * HoursPerDay
        Dormant(a) == IsDormant(a.date, cutoffDate)
        Client(a) ==
            [user_id |-> a.key,
             last_activity |-> a.date,
             last_activity_type |-> a.type,
             days_inactive |-> DiffDays(diffClock, Dayjs(a.date)),
             full_name |-> FormatUserName(a.key, GetProfile(a.key)),
             phone |-> FormatPhone(GetProfile(a.key))]
        Before(a, b) == b.days_inactive - a.days_inactive < 0
    IN  SortStable(Before, MapSeq(Client, FilterSeq(Dormant, userActivity)))

\* the result of getDormantClients(daysInactive) on the store as it is
DormantReport(daysInactive, cutoffClock, diffClock) ==
    LET userActivity ==
            NoteBatches(NoteBookings(<<>>,
                            ActiveBookingsBySessionDesc(bookings)),
                        OrderByCreatedDesc(creditBatches))
        clients == DormantList(userActivity, daysInactive, cutoffClock,
                               diffClock)
    IN  [total |-> Len(clients), cutoff_days |-> daysInactive,
         clients |-> clients]

\* Math.ceil(a / b) for a >= 0, b > 0
CeilDiv(a, b) == (a + b - 1) \div b

\* PageStart taking page numbers to start at 0
PageStart_ZeroBased(page, pageSize) == page * pageSize

\* clients.slice(startIndex, endIndex) of page `page`
PageStart(page, pageSize) == (page - 1) * pageSize

\* the result of getDormantClientsPaginated on the result of
\* getDormantClients
PaginatedReport(result, page, pageSize) ==
    LET startIndex == PageStart(page, pageSize)
        endIndex == startIndex + pageSize
    IN  [total |-> result.total, cutoff_days |-> result.cutoff_days,
         clients |-> Slice(result.clients, startIndex, endIndex),
         pagination |-> [page |-> page, pageSize |-> pageSize,
                         totalPages |-> CeilDiv(result.total, pageSize),
                         totalItems |-> result.total]]

GetDormantClients(daysInactive, drift, bookingsOk, batchesOk) ==
    /\ res = Idle
    /\ res' = IF ~bookingsOk THEN Thrown("getDormantClients", {"bookings"})
              ELSE IF ~batchesOk
              THEN Thrown("getDormantClients", {"credit_batches"})
              ELSE Returned("getDormantClients",
                       <<daysInactive, now, now + drift>>, {},
                       DormantReport(daysInactive, now, now + drift))
    /\ UNCHANGED <<store, profilesCache, loading, now, tz, pending>>

GetDormantClientsPaginated(daysInactive, page, pageSize, drift, bookingsOk, batchesOk) ==
    /\ res = Idle
    /\ res' = IF ~bookingsOk
              THEN Thrown("getDormantClientsPaginated", {"bookings"})
              ELSE IF ~batchesOk
              THEN Thrown("getDormantClientsPaginated", {"credit_batches"})
              ELSE Returned("getDormantClientsPaginated",
                       <<daysInactive, page, pageSize, now, now + drift>>, {},
                       PaginatedReport(
                           DormantReport(daysInactive, now, now + drift),
                           page, pageSize))
    /\ UNCHANGED <<store, profilesCache, loading, now, tz, pending>>

-----------------------------------------------------------------------------
(* Specification of the dormancy functions *)

DormantNow == DbInstant(DateOf(2026, 3, 1)) + 12
DormantToday == DateOf(2026, 3, 1)
Thresholds == {30, 31}

\* a booking without session_date created exactly 30 days before now;
\* bookings 40, 30 and 5 days before today; a cancelled booking
DormantBookingRows ==
    {[user_id |-> "a1b2c3d4-0001", session_date |-> NoDate,
      created_at |-> DormantNow - 30 * HoursPerDay, status |-> "active"],
     [user_id |-> "a1b2c3d4-0001", session_date |-> DormantToday - 40,
      created_at |-> DormantNow - 50 * HoursPerDay, status |-> "active"],
     [user_id |-> "a1b2c3d4-0002", session_date |-> DormantToday - 30,
      created_at |-> DormantNow - 50 * HoursPerDay, status |-> "active"],
     [user_id |-> "a1b2c3d4-0002", session_date |-> DormantToday - 5,
      created_at |-> DormantNow - 50 * HoursPerDay, status |-> "active"],
     [user_id |-> "e5f6", session_date |-> DormantToday - 40,
      created_at |-> DormantNow - 50 * HoursPerDay, status |-> "cancelled"]}

\* purchases exactly 30 days, exactly 31 days and 83 days before now
DormantBatchRows ==
    {[user_id |-> "a1b2c3d4-0001", created_at |-> DormantNow - 31 * HoursPerDay],
     [user_id |-> "a1b2c3d4-0002", created_at |-> DormantNow - 30 * HoursPerDay],
     [user_id |-> "e5f6", created_at |-> DormantNow - 31 * HoursPerDay],
     [user_id |-> "e5f6", created_at |-> DormantNow - 83 * HoursPerDay]}

InitDormant ==
    /\ bookings \in {b \in SeqUpTo(DormantBookingRows, MaxDormantRows) :
                        \A i \in 1..(Len(b) - 1) :
                            \/ b[i].session_date = NoDate
                            \/ /\ b[i + 1].session_date # NoDate
                               /\ b[i].session_date >= b[i + 1].session_date}
    /\ creditBatches \in {c \in SeqUpTo(DormantBatchRows, MaxDormantRows) :
                            \A i \in 1..(Len(c) - 1) :
                                c[i].created_at >= c[i + 1].created_at}
    /\ profiles = <<>> /\ packages = <<>> /\ sessions = <<>>
    /\ profilesCache = Loaded(SampleDirectory)
    /\ now = DormantNow
    /\ tz = 0
    /\ loading = {}
    /\ pending = NoCall
    /\ res = Idle

NextDormant ==
    \/ \E d \in Thresholds, drift \in 0..MaxClockDrift,
          bookingsOk \in BOOLEAN, batchesOk \in BOOLEAN :
          GetDormantClients(d, drift, bookingsOk, batchesOk)
    \/ \E d \in Thresholds, page \in 1..MaxPage, pageSize \in 1..MaxPageSize,
          drift \in 0..MaxClockDrift,
          bookingsOk \in BOOLEAN, batchesOk \in BOOLEAN :
          GetDormantClientsPaginated(d, page, pageSize, drift, bookingsOk,
                                     batchesOk)
    \/ Deliver

SpecDormant == InitDormant /\ [][NextDormant]_vars

\* the instants of the events of a user that getDormantClients considers:
\* active bookings (session_date, else created_at) and credit batches
ActivityInstants(userId) ==
    {Dayjs(BookingDate(bookings[i])) :
        i \in {k \in DOMAIN bookings : /\ bookings[k].user_id = userId
                                       /\ bookings[k].status = "active"}}
    \cup {creditBatches[i].created_at :
            i \in {k \in DOMAIN creditBatches :
                      creditBatches[k].user_id = userId}}

SetMax(S) == CHOOSE x \in S : \A y \in S : y <= x

ClientIds(clients) == {clients[i].user_id : i \in DOMAIN clients}

IsDormantReport == res.status = "ok" /\ res.op = "getDormantClients"

\* C5: a user is in the clients of getDormantClients(thresholdDays) exactly
\* when the user's last activity is strictly before now - thresholdDays: an
\* activity exactly at the cutoff keeps the user out, one a day earlier puts
\* the user in.
C5_DormantIffStrictlyBeforeCutoff ==
    IsDormantReport =>
        LET cutoff == res.args[2] - res.args[1] * HoursPerDay
        IN  \A u \in UserIds :
                u \in ClientIds(res.out.clients)
                    <=> /\ ActivityInstants(u) # {}
                        /\ SetMax(ActivityInstants(u)) < cutoff

\* a result that leaves out a user last active exactly at the cutoff and
\* holds a user last active one day before it
C5_Witness ==
    /\ IsDormantReport
    /\ LET cutoff == res.args[2] - res.args[1] * HoursPerDay
       IN  \E u, v \in UserIds :
              /\ ActivityInstants(u) # {} /\ ActivityInstants(v) # {}
              /\ SetMax(ActivityInstants(u)) = cutoff
              /\ u \notin ClientIds(res.out.clients)
              /\ SetMax(ActivityInstants(v)) = cutoff - HoursPerDay
              /\ v \in ClientIds(res.out.clients)

RECURSIVE Concat(_)
Concat(seqs) == IF seqs = <<>> THEN <<>> ELSE Head(seqs) \o Concat(Tail(seqs))

IsPaginatedReport ==
    res.status = "ok" /\ res.op = "getDormantClientsPaginated"

\* C6: for the threshold, page size (>= 1) and clock reading of a paginated
\* call, the pages 1..totalPages, totalPages = ceil(total / pageSize), put
\* one after the other are the clients of getDormantClients in the same
\* order, every page holds at most pageSize clients, and the call's own
\* page is its slice of that list.
C6_PagesConcatenateToFullList ==
    IsPaginatedReport =>
        LET days == res.args[1]
            page == res.args[2]
            pageSize == res.args[3]
            full == DormantReport(days, res.args[4], res.args[5])
            totalPages == CeilDiv(full.total, pageSize)
            pages == [p \in 1..totalPages |->
                        PaginatedReport(full, p, pageSize).clients]
        IN  /\ res.out.pagination.totalPages = totalPages
            /\ Concat(pages) = full.clients
            /\ \A p \in 1..totalPages : Len(pages[p]) <= pageSize
            /\ res.out.clients =
                  IF page <= totalPages THEN pages[page] ELSE <<>>
            /\ Len(res.out.clients) <= pageSize

\* the last, shorter page of a list of three clients cut in pages of two
C6_Witness ==
    /\ IsPaginatedReport
    /\ res.out.total = 3
    /\ res.args[2] = 2 /\ res.args[3] = 2
    /\ Len(res.out.clients) = 1

-----------------------------------------------------------------------------
(* Weekly schedule: getWeeklySchedule *)

DefaultCapacity == 14
DefaultClassName == "Clase"
\* dayMap, indexed by dayjs().day() + 1
DayNames == <<"DOMINGO", "LUNES", "MARTES", "MIÉRCOLES", "JUEVES", "VIERNES",
              "SÁBADO">>
DayOrder == <<"LUNES", "MARTES", "MIÉRCOLES", "JUEVES", "VIERNES", "SÁBADO">>

\* the order of the characters of a time of day under localeCompare
CharRank(c) ==
    CASE c = ":" -> 0 [] c = "0" -> 1 [] c = "1" -> 2 [] c = "2" -> 3
      [] c = "3" -> 4 [] c = "4" -> 5 [] c = "5" -> 6 [] c = "6" -> 7
      [] c = "7" -> 8 [] c = "8" -> 9 [] c = "9" -> 10

\* a.localeCompare(b) < 0
RECURSIVE StrBefore(_, _, _)
StrBefore(a, b, i) ==
    IF i > Len(b) THEN FALSE
    ELSE IF i > Len(a) THEN TRUE
    ELSE LET x == CharRank(SubSeq(a, i, i))
             y == CharRank(SubSeq(b, i, i))
         IN  IF x # y THEN x < y ELSE StrBefore(a, b, i + 1)

\* .in('status', ['active', 'completed']).gte('session_date', thirtyDaysAgo)
ScheduleBookings(rows, sinceDate) ==
    LET In(b) == /\ b.status \in {"active", "completed"}
                 /\ b.session_date # NoDate
                 /\ b.session_date >= sinceDate
    IN  FilterSeq(In, rows)

\* SessionInfo taking the last template of the day instead of the first
SessionInfo_LastTemplate(templates, dayName) ==
    LET last == CHOOSE i \in DOMAIN templates :
                    /\ templates[i].day_name = dayName
                    /\ \A j \in DOMAIN templates :
                          templates[j].day_name = dayName => j <= i
    IN  IF \E i \in DOMAIN templates : templates[i].day_name = dayName
        THEN <<[class_name |-> templates[last].class_name,
                subtitle |-> templates[last].class_subtitle,
                max_capacity |->
                    IF templates[last].max_spots # 0
                    THEN templates[last].max_spots ELSE DefaultCapacity]>>
        ELSE <<>>

\* sessions?.forEach(s => { if (!sessionMap.has(s.day_name)) ... }): the
\* first template of each day_name, with max_capacity = s.max_spots || 14
SessionInfo(templates, dayName) ==
    LET first == CHOOSE i \in DOMAIN templates :
                    /\ templates[i].day_name = dayName
                    /\ \A j \in DOMAIN templates :
                          templates[j].day_name = dayName => i <= j
    IN  IF \E i \in DOMAIN templates : templates[i].day_name = dayName
        THEN <<[class_name |-> templates[first].class_name,
                subtitle |-> templates[first].class_subtitle,
                max_capacity |->
                    IF templates[first].max_spots # 0
                    THEN templates[first].max_spots ELSE DefaultCapacity]>>
        ELSE <<>>

\* b.total_attendees || 1
AttendeesOf(b) == IF b.total_attendees # 0 THEN b.total_attendees ELSE 1

\* ClassesByDatetime making one record of every booking
ClassesByDatetime_PerBooking(classes, rows) ==
    classes \o [i \in DOMAIN rows |->
                  [key |-> <<rows[i].session_date,
                             Substring0(rows[i].session_time, 5)>>,
                   date |-> rows[i].session_date,
                   time |-> Substring0(rows[i].session_time, 5),
                   total_attendees |-> AttendeesOf(rows[i])]]

\* STEP 1: one record per date and time, in insertion order of the keys
RECURSIVE ClassesByDatetime(_, _)
ClassesByDatetime(classes, rows) ==
    IF rows = <<>> THEN classes
    ELSE LET b == Head(rows)
             time == Substring0(b.session_time, 5)
             key == <<b.session_date, time>>
             i == IndexOfKey(classes, key)
             base == IF i = 0
                     THEN Append(classes, [key |-> key, date |-> b.session_date,
                                           time |-> time, total_attendees |-> 0])
                     ELSE classes
             j == IF i = 0 THEN Len(base) ELSE i
         IN  ClassesByDatetime(
                 [base EXCEPT ![j].total_attendees = @ + AttendeesOf(b)],
                 Tail(rows))

\* STEP 2: one record per weekday and time
RECURSIVE ScheduleStats(_, _, _)
ScheduleStats(stats, classes, templates) ==
    IF classes = <<>> THEN stats
    ELSE LET cls == Head(classes)
             dayName == DayNames[DayjsWeekday(cls.date) + 1]
             key == <<dayName, cls.time>>
             info == SessionInfo(templates, dayName)
             fresh ==
                 [key |-> key, day |-> dayName, time |-> cls.time,
                  class_name |->
                      IF info # <<>> /\ info[1].class_name # ""
                      THEN info[1].class_name ELSE DefaultClassName,
                  subtitle |-> IF info # <<>> THEN info[1].subtitle ELSE "",
                  max_capacity |->
                      IF info # <<>> THEN info[1].max_capacity
                      ELSE DefaultCapacity,
                  total_classes |-> 0, total_attendees |-> 0,
                  avg_attendance |-> 0, occupancy_rate |-> 0]
             i == IndexOfKey(stats, key)
             base == IF i = 0 THEN Append(stats, fresh) ELSE stats
             j == IF i = 0 THEN Len(base) ELSE i
         IN  ScheduleStats(
                 [base EXCEPT ![j].total_classes = @ + 1,
                              ![j].total_attendees = @ + cls.total_attendees],
                 Tail(classes), templates)

\* Math.round(total_attendees / total_classes * 10) / 10, in tenths
AvgAttendanceTenths(totalAttendees, totalClasses) ==
    RoundDiv(totalAttendees * 10, totalClasses)

\* OccupancyRate cutting the fraction off instead of rounding
OccupancyRate_Floor(avgTenths, maxCapacity) ==
    (avgTenths * 10) \div maxCapacity

\* Math.round((avg_attendance / max_capacity) * 100)
OccupancyRate(avgTenths, maxCapacity) ==
    RoundDiv(avgTenths * 10, maxCapacity)

\* STEP 3: the averages of a slot
WithAverages(st) ==
    IF st.total_classes > 0
    THEN LET avg == AvgAttendanceTenths(st.total_attendees, st.total_classes)
         IN  [day |-> st.day, time |-> st.time, class_name |-> st.class_name,
              subtitle |-> st.subtitle, max_capacity |-> st.max_capacity,
              total_classes |-> st.total_classes,
              total_attendees |-> st.total_attendees,
              avg_attendance |-> avg,
              occupancy_rate |-> OccupancyRate(avg, st.max_capacity)]
    ELSE [day |-> st.day, time |-> st.time, class_name |-> st.class_name,
          subtitle |-> st.subtitle, max_capacity |-> st.max_capacity,
          total_classes |-> st.total_classes,
          total_attendees |-> st.total_attendees,
          avg_attendance |-> 0, occupancy_rate |-> 0]

\* byDay[day] = slots.filter(s => s.day === day)
\*                   .sort((a, b) => a.time.localeCompare(b.time))
ByDay(slots) ==
    LET Before(a, b) == StrBefore(a.time, b.time, 1)
    IN  [day \in {DayOrder[i] : i \in DOMAIN DayOrder} |->
            LET On(st) == st.day = day
            IN  SortStable(Before, FilterSeq(On, slots))]

\* the mapping getWeeklySchedule returns for the rows of its two reads
WeeklyScheduleReport(rows, templates) ==
    ByDay(MapSeq(WithAverages,
                 ScheduleStats(<<>>, ClassesByDatetime(<<>>, rows),
                               templates)))

\* a failed bookings read is logged and answered with {}; the error of the
\* sessions read is not looked at
GetWeeklySchedule(bookingsOk, sessionsOk) ==
    /\ res = Idle
    /\ res' = IF ~bookingsOk
              THEN Returned("getWeeklySchedule", <<>>, {"bookings"}, <<>>)
              ELSE Returned("getWeeklySchedule", <<>>,
                      ReadOf("sessions", sessionsOk),
                      WeeklyScheduleReport(
                          ScheduleBookings(bookings,
                              LocalDay(now - RollingWindowDays * HoursPerDay)),
                          DataOrNull(sessionsOk, sessions)))
    /\ UNCHANGED <<store, profilesCache, loading, now, tz, pending>>

-----------------------------------------------------------------------------
(* Specification of getWeeklySchedule *)

\* a Sunday noon; 2026-02-23 and 2026-02-16 are Mondays
ScheduleNow == DbInstant(DateOf(2026, 3, 1)) + 12

ScheduleBookingRows ==
    {[session_date |-> DateOf(2026, 2, 23), session_time |-> "09:00:00",
      total_attendees |-> 8, status |-> "active"],
     [session_date |-> DateOf(2026, 2, 16), session_time |-> "09:00:00",
      total_attendees |-> 12, status |-> "completed"],
     [session_date |-> DateOf(2026, 2, 23), session_time |-> "09:00",
      total_attendees |-> 0, status |-> "active"],
     [session_date |-> DateOf(2026, 2, 23), session_time |-> "18:30:00",
      total_attendees |-> 5, status |-> "active"],
     [session_date |-> DateOf(2026, 2, 24), session_time |-> "07:15:00",
      total_attendees |-> 3, status |-> "active"],
     [session_date |-> DateOf(2026, 2, 22), session_time |-> "09:00:00",
      total_attendees |-> 4, status |-> "active"],
     [session_date |-> DateOf(2026, 2, 23), session_time |-> "09:00:00",
      total_attendees |-> 7, status |-> "cancelled"],
     [session_date |-> DateOf(2026, 1, 19), session_time |-> "09:00:00",
      total_attendees |-> 2, status |-> "active"]}

\* no template; two templates for Monday; a Monday template without
\* max_spots and a Tuesday template
SessionTables ==
    {<<>>,
     <<[day_name |-> "LUNES", class_name |-> "Rage Ride",
        class_subtitle |-> "Cardio", max_spots |-> 20],
       [day_name |-> "LUNES", class_name |-> "Power",
        class_subtitle |-> "", max_spots |-> 10]>>,
     <<[day_name |-> "LUNES", class_name |-> "Rage Ride",
        class_subtitle |-> "Cardio", max_spots |-> 0],
       [day_name |-> "MARTES", class_name |-> "", class_subtitle |-> "",
        max_spots |-> 8]>>}

InitSchedule ==
    /\ bookings \in SeqUpTo(ScheduleBookingRows, MaxScheduleRows)
    /\ sessions \in SessionTables
    /\ profiles = <<>> /\ creditBatches = <<>> /\ packages = <<>>
    /\ profilesCache = NullCache
    /\ now = ScheduleNow
    /\ tz = 0
    /\ loading = {}
    /\ pending = NoCall
    /\ res = Idle

NextSchedule ==
    \/ \E bookingsOk \in BOOLEAN, sessionsOk \in BOOLEAN :
          GetWeeklySchedule(bookingsOk, sessionsOk)
    \/ Deliver

SpecSchedule == InitSchedule /\ [][NextSchedule]_vars

IsScheduleReport == res.status = "ok" /\ res.op = "getWeeklySchedule"

\* the templates the computation that produced res had
TemplatesForRes == IF "sessions" \in res.failed THEN <<>> ELSE sessions

HasUsableTemplate(templates, dayName) ==
    /\ \E i \in DOMAIN templates : templates[i].day_name = dayName
    /\ LET first == CHOOSE i \in DOMAIN templates :
                       /\ templates[i].day_name = dayName
                       /\ \A j \in DOMAIN templates :
                             templates[j].day_name = dayName => i <= j
       IN  templates[first].max_spots # 0

\* x = Math.round(n / d): the nearest whole number, a half going up
IsRounded(x, n, d) == 2 * d * x - d <= 2 * n /\ 2 * n < 2 * d * x + d

\* C7: every slot of the weekly schedule has avg_attendance =
\* round(total_attendees / total_classes, one decimal) and occupancy_rate =
\* round(avg_attendance / max_capacity * 100), and max_capacity is 14 when
\* the slot's weekday has no session template or the template has no
\* max_spots.
C7_OccupancyOfEverySlot ==
    IsScheduleReport =>
        \A day \in DOMAIN res.out : \A i \in DOMAIN res.out[day] :
            LET slot == res.out[day][i]
            IN  /\ slot.total_classes > 0
                /\ IsRounded(slot.avg_attendance, slot.total_attendees * 10,
                             slot.total_classes)
                /\ IsRounded(slot.occupancy_rate, slot.avg_attendance * 10,
                             slot.max_capacity)
                /\ ~HasUsableTemplate(TemplatesForRes, day) =>
                      slot.max_capacity = DefaultCapacity

\* the Monday 09:00 slot seen twice, with 8 and 12 attendees and no
\* template: average 10.0, occupancy 71
C7_Witness ==
    /\ IsScheduleReport
    /\ "LUNES" \in DOMAIN res.out
    /\ \E i \in DOMAIN res.out["LUNES"] :
          LET slot == res.out["LUNES"][i]
          IN  /\ slot.time = "09:00"
              /\ slot.total_classes = 2 /\ slot.total_attendees = 20
              /\ slot.max_capacity = 14
              /\ slot.avg_attendance = 100 /\ slot.occupancy_rate = 71

-----------------------------------------------------------------------------
(* Credits comparison: getCreditsComparison.  None of the four reads'      *)
(* errors is looked at: a failed read leaves its data null.                *)

\* .eq('status', 'active').gte('session_date', start).lte('session_date', end)
ActiveBookingsBetween(rows, startDate, endDate) ==
    LET In(b) == /\ b.status = "active"
                 /\ b.session_date # NoDate
                 /\ b.session_date >= startDate
                 /\ b.session_date <= endDate
    IN  FilterSeq(In, rows)

\* new Set(rows?.map(b => b.user_id) || [])
UsersOf(rows) == {rows[i].user_id : i \in DOMAIN rows}

\* Recurring counting the buyers of either period
Recurring_EitherPeriod(users1, users2) == users1 \cup users2

\* [...users1].filter(u => users2.has(u))
Recurring(users1, users2) == {u \in users1 : u \in users2}

\* users1.size > 0 ? Math.round((recurring.length / users1.size) * 100) : 0
RecurringPercentage(recurring, buyers1) ==
    IF buyers1 > 0 THEN RoundDiv(100 * recurring, buyers1) ELSE 0

\* the period1 and period2 members of the result
PeriodStats(batches, booked) ==
    [credits_purchased |->
         SumSeq([i \in DOMAIN batches |-> batches[i].credits_total]),
     credits_used |->
         SumSeq([i \in DOMAIN booked |-> AttendeesOf(booked[i])]),
     unique_buyers |-> Cardinality(UsersOf(batches)),
     active_clients |-> Cardinality(UsersOf(booked))]

CreditsComparisonReport(batches1, bookings1, batches2, bookings2) ==
    LET users1 == UsersOf(batches1)
        users2 == UsersOf(batches2)
        recurring == Recurring(users1, users2)
    IN  [period1 |-> PeriodStats(batches1, bookings1),
         period2 |-> PeriodStats(batches2, bookings2),
         recurring_clients |-> Cardinality(recurring),
         recurring_percentage |->
             RecurringPercentage(Cardinality(recurring), Cardinality(users1))]

\* ok1..ok4: the outcomes of the reads in the order the function makes them
GetCreditsComparison(period1Start, period1End, period2Start, period2End, ok1, ok2, ok3, ok4) ==
    /\ res = Idle
    /\ res' = Returned("getCreditsComparison",
                 <<period1Start, period1End, period2Start, period2End>>,
                 ReadOf("credit_batches", ok1 /\ ok3)
                     \cup ReadOf("bookings", ok2 /\ ok4),
                 CreditsComparisonReport(
                     DataOrNull(ok1, CreatedBetween(creditBatches,
                                         period1Start, period1End)),
                     DataOrNull(ok2, ActiveBookingsBetween(bookings,
                                         period1Start, period1End)),
                     DataOrNull(ok3, CreatedBetween(creditBatches,
                                         period2Start, period2End)),
                     DataOrNull(ok4, ActiveBookingsBetween(bookings,
                                         period2Start, period2End))))
    /\ UNCHANGED <<store, profilesCache, loading, now, tz, pending>>

-----------------------------------------------------------------------------
(* Specification of getCreditsComparison *)

CompareUsers == <<"A", "B", "C", "D">>

\* in January, at the first instant of January 31st, and in February
PurchaseInstants ==
    <<DbInstant(DateOf(2026, 1, 10)) + 10, DbInstant(DateOf(2026, 1, 31)),
      DbInstant(DateOf(2026, 2, 10)) + 17>>

\* the purchases of the users of the table, user after user
RECURSIVE PurchaseRows(_, _, _)
PurchaseRows(buys, u, t) ==
    IF u > Len(CompareUsers) THEN <<>>
    ELSE IF t > Len(PurchaseInstants) THEN PurchaseRows(buys, u + 1, 1)
    ELSE (IF t \in buys[u]
          THEN <<[user_id |-> CompareUsers[u], package_id |-> 1,
                  credits_total |-> 5 * t - 5, credits_remaining |-> 0,
                  created_at |-> PurchaseInstants[t]]>>
          ELSE <<>>) \o PurchaseRows(buys, u, t + 1)

CompareBookingTables ==
    {<<>>,
     <<[user_id |-> "A", session_date |-> DateOf(2026, 1, 12),
        created_at |-> DbInstant(DateOf(2026, 1, 11)), status |-> "active",
        session_time |-> "09:00:00", total_attendees |-> 2],
       [user_id |-> "A", session_date |-> DateOf(2026, 2, 3),
        created_at |-> DbInstant(DateOf(2026, 2, 1)), status |-> "active",
        session_time |-> "09:00:00", total_attendees |-> 0],
       [user_id |-> "B", session_date |-> DateOf(2026, 2, 4),
        created_at |-> DbInstant(DateOf(2026, 2, 1)), status |-> "cancelled",
        session_time |-> "09:00:00", total_attendees |-> 1]>>}

\* two months; a first period ending a day earlier; a first period without
\* purchases
ComparePeriods ==
    {<<DateOf(2026, 1, 1), DateOf(2026, 1, 31),
       DateOf(2026, 2, 1), DateOf(2026, 2, 28)>>,
     <<DateOf(2026, 1, 1), DateOf(2026, 1, 30),
       DateOf(2026, 1, 31), DateOf(2026, 2, 28)>>,
     <<DateOf(2026, 3, 1), DateOf(2026, 3, 31),
       DateOf(2026, 1, 1), DateOf(2026, 2, 28)>>}

InitCredits ==
    /\ \E buys \in [DOMAIN CompareUsers -> SUBSET DOMAIN PurchaseInstants] :
          creditBatches = PurchaseRows(buys, 1, 1)
    /\ bookings \in CompareBookingTables
    /\ profiles = <<>> /\ packages = <<>> /\ sessions = <<>>
    /\ profilesCache = NullCache
    /\ now = DbInstant(DateOf(2026, 3, 1)) + 12
    /\ tz = 0
    /\ loading = {}
    /\ pending = NoCall
    /\ res = Idle

NextCredits ==
    \/ \E p \in ComparePeriods, ok1 \in BOOLEAN, ok2 \in BOOLEAN,
          ok3 \in BOOLEAN, ok4 \in BOOLEAN :
          GetCreditsComparison(p[1], p[2], p[3], p[4], ok1, ok2, ok3, ok4)
    \/ Deliver

SpecCredits == InitCredits /\ [][NextCredits]_vars

IsCreditsReport == res.status = "ok" /\ res.op = "getCreditsComparison"

\* the users with a purchase from the first instant of startDate to the
\* first instant of endDate
PurchasersIn(startDate, endDate) ==
    {creditBatches[i].user_id : i \in
        {j \in DOMAIN creditBatches :
            /\ creditBatches[j].created_at >= DbInstant(startDate)
            /\ creditBatches[j].created_at <= DbInstant(endDate)}}

\* C8: when its reads of the credit batches succeed, getCreditsComparison
\* returns recurring_clients = the number of users purchasing in both
\* periods and recurring_percentage = round(recurring_clients /
\* period1.unique_buyers * 100), 0 when period 1 has no buyer.
C8_RecurringIsIntersection ==
    (IsCreditsReport /\ "credit_batches" \notin res.failed) =>
        LET users1 == PurchasersIn(res.args[1], res.args[2])
            users2 == PurchasersIn(res.args[3], res.args[4])
            n == Cardinality(users1 \cap users2)
        IN  /\ res.out.recurring_clients = n
            /\ res.out.period1.unique_buyers = Cardinality(users1)
            /\ IF users1 = {}
               THEN res.out.recurring_percentage = 0
               ELSE IsRounded(res.out.recurring_percentage, 100 * n,
                              Cardinality(users1))

\* purchasers {A, B, C} and {B, C, D} give 2 and 67
C8_Witness ==
    /\ IsCreditsReport /\ res.failed = {}
    /\ PurchasersIn(res.args[1], res.args[2]) = {"A", "B", "C"}
    /\ PurchasersIn(res.args[3], res.args[4]) = {"B", "C", "D"}
    /\ res.out.recurring_clients = 2
    /\ res.out.recurring_percentage = 67

-----------------------------------------------------------------------------
(* Specification of the eight computations over one store whose reads may  *)
(* fail.                                                                    *)

ReadsNow == DbInstant(DateOf(2026, 3, 1)) + 12

ReadsBookings ==
    <<[user_id |-> "a1b2c3d4-0001", session_date |-> DateOf(2026, 2, 23),
       created_at |-> DbInstant(DateOf(2026, 2, 20)), status |-> "active",
       session_time |-> "09:00:00", total_attendees |-> 8],
      [user_id |-> "a1b2c3d4-0002", session_date |-> DateOf(2026, 1, 12),
       created_at |-> DbInstant(DateOf(2026, 1, 10)), status |-> "active",
       session_time |-> "18:30:00", total_attendees |-> 2]>>

ReadsBatches ==
    <<[user_id |-> "a1b2c3d4-0001", package_id |-> 1, credits_total |-> 5,
       credits_remaining |-> 3,
       created_at |-> DbInstant(DateOf(2026, 1, 10)) + 10],
      [user_id |-> "e5f6", package_id |-> 2, credits_total |-> 10,
       credits_remaining |-> 0,
       created_at |-> DbInstant(DateOf(2026, 2, 10)) + 17]>>

ReadsPackages ==
    <<[id |-> 1, title |-> "A", price |-> 100],
      [id |-> 2, title |-> "B", price |-> 50]>>

ReadsSessions ==
    <<[day_name |-> "LUNES", class_name |-> "Rage Ride",
       class_subtitle |-> "Cardio", max_spots |-> 20]>>

InitReads ==
    /\ bookings \in {<<>>, ReadsBookings}
    /\ creditBatches \in {<<>>, ReadsBatches}
    /\ packages = ReadsPackages
    /\ sessions = ReadsSessions
    /\ profiles = <<>>
    /\ profilesCache = Loaded(SampleDirectory)
    /\ now = ReadsNow
    /\ tz = 0
    /\ loading = {}
    /\ pending = NoCall
    /\ res = Idle

NextReads ==
    \/ \E bookingsOk \in BOOLEAN, batchesOk \in BOOLEAN :
          GetDormantClients(RollingWindowDays, 0, bookingsOk, batchesOk)
    \/ \E batchesOk \in BOOLEAN, pkgOk \in BOOLEAN :
          GetPackageSalesByMonth(2026, batchesOk, pkgOk)
    \/ \E batchesOk \in BOOLEAN, pkgOk \in BOOLEAN :
          GetPackageSalesByDateRange(DateOf(2026, 1, 1), DateOf(2026, 1, 31),
                                     batchesOk, pkgOk)
    \/ \E batchesOk \in BOOLEAN, pkgOk \in BOOLEAN :
          GetTopBuyers(2026, 2, batchesOk, pkgOk)
    \/ \E batchesOk \in BOOLEAN, pkgOk \in BOOLEAN :
          GetTopBuyersByDateRange(DateOf(2026, 1, 1), DateOf(2026, 1, 31), 2,
                                  batchesOk, pkgOk)
    \/ \E ok \in BOOLEAN : RetentionReadAllBookings(ok)
    \/ \E ok \in BOOLEAN : RetentionReadRecentBookings(ok)
    \/ \E ok \in BOOLEAN : RetentionReadAllBatches(ok)
    \/ \E ok \in BOOLEAN : RetentionReadActiveBatches(ok)
    \/ \E bookingsOk \in BOOLEAN, sessionsOk \in BOOLEAN :
          GetWeeklySchedule(bookingsOk, sessionsOk)
    \/ \E ok1 \in BOOLEAN, ok2 \in BOOLEAN, ok3 \in BOOLEAN, ok4 \in BOOLEAN :
          GetCreditsComparison(DateOf(2026, 1, 1), DateOf(2026, 1, 31),
                               DateOf(2026, 2, 1), DateOf(2026, 2, 28),
                               ok1, ok2, ok3, ok4)
    \/ Deliver

SpecReads == InitReads /\ [][NextReads]_vars

NeededTables == {"bookings", "credit_batches", "packages"}

\* C9: a computation one of whose reads of bookings, credit batches or
\* packages failed ends with an error raised to its caller; it never
\* returns a normal result.
C9_FailedReadRaises ==
    res.status = "ok" => res.failed \cap NeededTables = {}

-----------------------------------------------------------------------------
(* loadProfiles.  A call that finds profilesCache null suspends at its     *)
(* read; other calls may run until it resumes and assigns the cache.       *)

\* new Map()
EmptyDirectory == <<>>

\* new Map(data.map(p => [p.id, p])): the last row of an id wins
DirectoryOf(rows) ==
    [id \in {rows[i].id : i \in DOMAIN rows} |->
        rows[CHOOSE i \in DOMAIN rows :
                /\ rows[i].id = id
                /\ \A j \in DOMAIN rows : rows[j].id = id => j <= i]]

\* LoadedDirectory keeping an empty result out of the cache
LoadedDirectory_NullWhenEmpty(ok, data) ==
    IF ~ok \/ Len(data) = 0 THEN NullCache ELSE Loaded(DirectoryOf(data))

\* what loadProfiles assigns to profilesCache after its read
LoadedDirectory(ok, data) ==
    IF ~ok \/ Len(data) = 0 THEN Loaded(EmptyDirectory)
    ELSE Loaded(DirectoryOf(data))

\* if (profilesCache) return profilesCache; else start the read
LoadProfilesCall(c) ==
    /\ c \notin loading
    /\ res = Idle
    /\ IF profilesCache # NullCache
       THEN /\ res' = Returned("loadProfiles", <<c>>, {}, profilesCache)
            /\ UNCHANGED loading
       ELSE /\ loading' = loading \cup {c}
            /\ UNCHANGED res
    /\ UNCHANGED <<store, profilesCache, now, tz, pending>>

\* the read ends: args[2] is the data it gave (null read as no rows)
LoadProfilesResume(c, ok) ==
    /\ c \in loading
    /\ res = Idle
    /\ LET data == DataOrNull(ok, profiles)
       IN  /\ profilesCache' = LoadedDirectory(ok, data)
           /\ res' = Returned("loadProfiles", <<c, data>>,
                              ReadOf("profiles", ok), profilesCache')
    /\ loading' = loading \ {c}
    /\ UNCHANGED <<store, now, tz, pending>>

\* another client of the data store adds a profile
InsertProfile(row) ==
    /\ Len(profiles) < MaxStoreGrowth
    /\ profiles' = Append(profiles, row)
    /\ UNCHANGED <<bookings, creditBatches, packages, sessions,
                   profilesCache, loading, now, tz, pending, res>>

-----------------------------------------------------------------------------
(* Specification of the profile cache with the computations that show      *)
(* names and phones                                                        *)

Loaders == 1..MaxLoaders

ProfileRows ==
    {[id |-> "a1b2c3d4-0001", full_name |-> "Ana Ruiz", phone |-> "555-0101"],
     [id |-> "a1b2c3d4-0002", full_name |-> "  ", phone |-> ""]}

InitProfiles ==
    /\ profiles = <<>>
    /\ bookings = <<>>
    /\ creditBatches = ReadsBatches
    /\ packages = ReadsPackages
    /\ sessions = <<>>
    /\ profilesCache = NullCache
    /\ now = ReadsNow
    /\ tz = 0
    /\ loading = {}
    /\ pending = NoCall
    /\ res = Idle

NextProfiles ==
    \/ \E c \in Loaders : LoadProfilesCall(c)
    \/ \E c \in Loaders, ok \in BOOLEAN : LoadProfilesResume(c, ok)
    \/ \E row \in ProfileRows : InsertProfile(row)
    \/ \E batchesOk \in BOOLEAN, pkgOk \in BOOLEAN :
          GetTopBuyers(2026, 2, batchesOk, pkgOk)
    \/ \E bookingsOk \in BOOLEAN, batchesOk \in BOOLEAN :
          GetDormantClients(RollingWindowDays, 0, bookingsOk, batchesOk)
    \/ Deliver

SpecProfiles == InitProfiles /\ [][NextProfiles]_vars

IsLoadResult == res.op = "loadProfiles"

\* the read of the load that gave res returned an error or no rows
LoadReadGaveNothing ==
    /\ IsLoadResult
    /\ Len(res.args) = 2
    /\ ("profiles" \in res.failed \/ res.args[2] = <<>>)

\* the entries with a display name and a phone in res
NamedEntries ==
    IF res.status = "ok" /\ res.op = "getTopBuyers" THEN res.out
    ELSE IF res.status = "ok" /\ res.op = "getDormantClients"
    THEN res.out.clients
    ELSE <<>>

IsFallbackIdentity(e) ==
    /\ e.full_name = UserNamePrefix \o Substring0(e.user_id, 8)
    /\ e.phone = NoPhone

\* loadProfiles never fails and gives an empty directory when its read gave
\* an error or no rows; with the empty directory in the cache every lookup
\* is absent, every name and phone is the fallback, and a computation
\* raises only for a read of its own that failed
DegradedDirectory ==
    /\ IsLoadResult => res.status = "ok"
    /\ LoadReadGaveNothing => res.out = Loaded(EmptyDirectory)
    /\ profilesCache = Loaded(EmptyDirectory) =>
          /\ \A u \in UserIds : GetProfile(u) = <<>>
          /\ \A i \in DOMAIN NamedEntries : IsFallbackIdentity(NamedEntries[i])
    /\ res.status = "error" => res.failed # {}

-----------------------------------------------------------------------------
(* The cache over the lifetime of the process.  loadProfiles is called by  *)
(* ensureProfiles of the server (which stops calling once a call of its    *)
(* own has completed), by getDashboardSummary and by the command line; the *)
(* calls of LoadProfilesCall stand for all of them.                        *)

\* res is what a call that found the cache populated returned
IsCacheHit == IsLoadResult /\ Len(res.args) = 1

\* C11: once a loadProfiles call has completed the cache is populated and
\* is never reset or replaced afterwards, and every later loadProfiles call
\* returns that cache without issuing a read, also when the cache is the
\* empty directory of a failed read.
C11_PopulatedOnceAndKept ==
    /\ [][profilesCache # NullCache => profilesCache' = profilesCache]_vars
    /\ [][profilesCache # NullCache => loading' \subseteq loading]_vars
    /\ [](IsCacheHit => res.out = profilesCache /\ res.failed = {})

-----------------------------------------------------------------------------
(* Specification of concurrent first-time loads over a table of profiles   *)
(* that does not change                                                    *)

InitRace ==
    /\ profiles \in SeqUpTo(ProfileRows, MaxStoreGrowth)
    /\ bookings = <<>> /\ creditBatches = <<>>
    /\ packages = <<>> /\ sessions = <<>>
    /\ profilesCache = NullCache
    /\ now = ReadsNow
    /\ tz = 0
    /\ loading = {}
    /\ pending = NoCall
    /\ res = Idle

NextRace ==
    \/ \E c \in Loaders : LoadProfilesCall(c)
    \/ \E c \in Loaders, ok \in BOOLEAN : LoadProfilesResume(c, ok)
    \/ Deliver

SpecRace == InitRace /\ [][NextRace]_vars

\* C12: when first-time loadProfiles calls run concurrently, the order in
\* which their assignments land does not change the final content of the
\* cache, whatever the outcome of each read: an assignment that lands on a
\* cache another of the calls has populated leaves the content as it is.
C12_AssignmentOrderIrrelevant ==
    [][(loading' # loading /\ profilesCache # NullCache)
          => profilesCache' = profilesCache]_vars

-----------------------------------------------------------------------------
(* The merge of getDormantClients over rows in any iteration order *)

\* .eq('status', 'active')
ActiveBookings(rows) ==
    LET Active(b) == b.status = "active"
    IN  FilterSeq(Active, rows)

\* userActivity after the two forEach loops over the fetched rows
UserActivity(bookingRows, batchRows) ==
    NoteBatches(NoteBookings(<<>>, bookingRows), batchRows)

\* the merge applied to the rows in the order the tables hold them
MergeUserActivity ==
    /\ res = Idle
    /\ res' = Returned("userActivity", <<>>, {},
                       UserActivity(ActiveBookings(bookings), creditBatches))
    /\ UNCHANGED <<store, profilesCache, loading, now, tz, pending>>

InitActivity ==
    /\ bookings \in SeqUpTo(DormantBookingRows, MaxDormantRows)
    /\ creditBatches \in SeqUpTo(DormantBatchRows, MaxDormantRows)
    /\ profiles = <<>> /\ packages = <<>> /\ sessions = <<>>
    /\ profilesCache = Loaded(SampleDirectory)
    /\ now = DormantNow
    /\ tz \in TimeZones
    /\ loading = {}
    /\ pending = NoCall
    /\ res = Idle

NextActivity ==
    \/ MergeUserActivity
    \/ Deliver

SpecActivity == InitActivity /\ [][NextActivity]_vars

IsActivityMap == res.status = "ok" /\ res.op = "userActivity"

\* the active bookings and the credit batches of a user at an instant
BookingsOfAt(userId, instant) ==
    {i \in DOMAIN bookings : /\ bookings[i].user_id = userId
                             /\ bookings[i].status = "active"
                             /\ Dayjs(BookingDate(bookings[i])) = instant}
BatchesOfAt(userId, instant) ==
    {i \in DOMAIN creditBatches : /\ creditBatches[i].user_id = userId
                                  /\ creditBatches[i].created_at = instant}

\* C13: for every user and every iteration order of the fetched rows, the
\* last activity kept for the user is the maximum date over the user's
\* active bookings (session_date, else created_at) and credit batches
\* (created_at), and its type is the type of an event with that date.
C13_LastActivityIsMaximum ==
    IsActivityMap =>
        /\ \A u \in UserIds :
              ActivityInstants(u) # {} <=>
                  \E i \in DOMAIN res.out : res.out[i].key = u
        /\ \A i \in DOMAIN res.out :
              LET e == res.out[i]
                  latest == SetMax(ActivityInstants(e.key))
              IN  /\ Dayjs(e.date) = latest
                  /\ \/ e.type = "booking" /\ BookingsOfAt(e.key, latest) # {}
                     \/ e.type = "purchase" /\ BatchesOfAt(e.key, latest) # {}

\* two bookings of a user iterated oldest first, and a user whose purchase
\* is iterated after a later one: the later date is kept for both
C13_Witness ==
    /\ IsActivityMap
    /\ \E i \in DOMAIN bookings, j \in DOMAIN bookings :
          /\ i < j
          /\ bookings[i].user_id = bookings[j].user_id
          /\ bookings[i].status = "active" /\ bookings[j].status = "active"
          /\ Dayjs(BookingDate(bookings[i])) < Dayjs(BookingDate(bookings[j]))
          /\ \E k \in DOMAIN res.out :
                /\ res.out[k].key = bookings[j].user_id
                /\ res.out[k].type = "booking"
                /\ Dayjs(res.out[k].date) = Dayjs(BookingDate(bookings[j]))
    /\ \E i \in DOMAIN creditBatches, j \in DOMAIN creditBatches :
          /\ i < j
          /\ creditBatches[i].user_id = creditBatches[j].user_id
          /\ creditBatches[i].created_at > creditBatches[j].created_at
          /\ \E k \in DOMAIN res.out :
                /\ res.out[k].key = creditBatches[i].user_id
                /\ res.out[k].type = "purchase"
                /\ res.out[k].date = Timestamp(creditBatches[i].created_at)

-----------------------------------------------------------------------------
(* The shape of the weekly schedule *)

\* the rows of bookings that getWeeklySchedule asks for, now being fixed
EligibleForSchedule ==
    {i \in DOMAIN bookings :
        /\ bookings[i].status \in {"active", "completed"}
        /\ bookings[i].session_date >= LocalDay(now - RollingWindowDays * HoursPerDay)}

RECURSIVE SumOfSet(_, _)
SumOfSet(f, S) ==
    IF S = {} THEN 0
    ELSE LET x == CHOOSE y \in S : TRUE
         IN  f[x] + SumOfSet(f, S \ {x})

\* the attendees of all the slots of a schedule
AttendeesInSchedule(schedule) ==
    SumSeq([d \in DOMAIN DayOrder |->
               SumSeq([i \in DOMAIN schedule[DayOrder[d]] |->
                          schedule[DayOrder[d]][i].total_attendees])])

WeekdayKeys == {DayOrder[d] : d \in DOMAIN DayOrder}

\* the keys are Monday to Saturday, every slot is under its own weekday,
\* and the attendees counted are those of the bookings not on a Sunday
SixWeekdaysWithoutSunday ==
    /\ DOMAIN res.out = WeekdayKeys
    /\ "DOMINGO" \notin DOMAIN res.out
    /\ \A day \in DOMAIN res.out : \A i \in DOMAIN res.out[day] :
          res.out[day][i].day = day
    /\ AttendeesInSchedule(res.out) =
          SumOfSet([i \in DOMAIN bookings |-> AttendeesOf(bookings[i])],
                   {i \in EligibleForSchedule :
                       DayjsWeekday(bookings[i].session_date) # 0})

\* C14: for every outcome of its reads, the mapping getWeeklySchedule
\* returns has exactly the six keys Monday..Saturday, each a list; there is
\* no Sunday key and no booking of a Sunday is counted in a slot.
C14_SixWeekdayKeys == IsScheduleReport => SixWeekdaysWithoutSunday

-----------------------------------------------------------------------------
(* The month buckets of the sales reports.  A month is its number 1..12,   *)
(* which stands for its name in the list months.                           *)

\* the (year, month) of local time of the fetched batches
MonthsWithSales ==
    {<<DayjsYear(FetchedForRes[i].created_at),
       DayjsMonth(FetchedForRes[i].created_at)>> : i \in DOMAIN FetchedForRes}

\* C15: getPackageSalesByMonth returns exactly 12 buckets in the order
\* January..December, a month without purchase having count, revenue and
\* credits 0; getPackageSalesByDateRange returns one bucket for each
\* (year, month) with a batch, each with count >= 1, in the order of year
\* then month, no two for the same (year, month).
C15_MonthBucketsShape ==
    /\ (res.status = "ok" /\ res.op = "getPackageSalesByMonth") =>
          LET buckets == res.out.by_month
          IN  /\ Len(buckets) = 12
              /\ \A m \in 1..12 :
                    /\ buckets[m].month = m
                    /\ (\A ym \in MonthsWithSales : ym[2] # m) =>
                          /\ buckets[m].count = 0
                          /\ buckets[m].revenue = 0
                          /\ buckets[m].credits = 0
    /\ (res.status = "ok" /\ res.op = "getPackageSalesByDateRange") =>
          LET buckets == res.out.by_month
          IN  /\ {<<buckets[i].year, buckets[i].month>> :
                     i \in DOMAIN buckets} = MonthsWithSales
              /\ \A i \in DOMAIN buckets : buckets[i].count >= 1
              /\ \A i \in 1..(Len(buckets) - 1) :
                    \/ buckets[i].year < buckets[i + 1].year
                    \/ /\ buckets[i].year = buckets[i + 1].year
                       /\ buckets[i].month < buckets[i + 1].month

\* a range report with a bucket for December 2025 and one for December 2026
C15_Witness ==
    /\ res.status = "ok" /\ res.op = "getPackageSalesByDateRange"
    /\ Len(res.out.by_month) >= 2
    /\ \E i \in DOMAIN res.out.by_month : \E j \in DOMAIN res.out.by_month :
          /\ res.out.by_month[i].year = 2025 /\ res.out.by_month[i].month = 12
          /\ res.out.by_month[j].year = 2026 /\ res.out.by_month[j].month = 12
          /\ i < j

-----------------------------------------------------------------------------
(* Batches whose package is missing, in the sales reports *)

\* the price of the package of a batch, 0 when no package has its id
PriceCharged(b) ==
    LET pm == PackageMap(packages)
    IN  IF b.package_id \in DOMAIN pm THEN pm[b.package_id].price ELSE 0

\* the name a batch is grouped under
GroupName(b) ==
    LET pm == PackageMap(packages)
    IN  IF b.package_id \in DOMAIN pm /\ pm[b.package_id].title # ""
        THEN pm[b.package_id].title
        ELSE UnknownPackage

CreditsOf(b) == b.credits_total

\* the batches of fetched that fall in a month bucket of res
BatchesOfBucket(fetched, bucket) ==
    LET In(b) == /\ DayjsMonth(b.created_at) = bucket.month
                 /\ res.op = "getPackageSalesByDateRange" =>
                       DayjsYear(b.created_at) = bucket.year
    IN  FilterSeq(In, fetched)

UnknownBatches ==
    LET Is(b) == GroupName(b) = UnknownPackage
    IN  FilterSeq(Is, FetchedForRes)

MissingPackageFetched ==
    \E i \in DOMAIN FetchedForRes :
        FetchedForRes[i].package_id \notin DOMAIN PackageMap(packages)

UnknownEntries ==
    {i \in DOMAIN res.out.by_package_type :
        res.out.by_package_type[i].name = UnknownPackage}

\* every fetched batch, its package missing or not, is counted in the
\* totals and in its month bucket with the price of its package (0 when
\* missing) and its credits; the batches of missing packages are in the
\* one entry named UnknownPackage
MissingPackagesCounted ==
    LET fetched == FetchedForRes
        unknown == UnknownBatches
    IN  /\ res.out.total_packages = Len(fetched)
        /\ res.out.total_revenue = SumOver(PriceCharged, fetched)
        /\ \A k \in DOMAIN res.out.by_month :
              LET bucket == res.out.by_month[k]
                  inBucket == BatchesOfBucket(fetched, bucket)
              IN  /\ bucket.count = Len(inBucket)
                  /\ bucket.revenue = SumOver(PriceCharged, inBucket)
                  /\ bucket.credits = SumOver(CreditsOf, inBucket)
        /\ MissingPackageFetched =>
              /\ Cardinality(UnknownEntries) = 1
              /\ \A i \in UnknownEntries :
                    LET e == res.out.by_package_type[i]
                    IN  /\ e.count = Len(unknown)
                        /\ e.credits = SumOver(CreditsOf, unknown)
                        /\ e.revenue = SumOver(PriceCharged, unknown)

\* C16: in both sales entry points a batch whose package is missing is
\* counted in total_packages and in its month bucket, adds 0 revenue and
\* its credits_total, and is grouped under the one UnknownPackage entry;
\* the revenue of a batch is the price of its package.  The unit price of
\* that entry is the price of the first fetched batch grouped under it: 0
\* unless a package without title, which shares the entry, comes first.
C16_MissingPackageCounted ==
    IsSalesReport =>
        /\ MissingPackagesCounted
        /\ MissingPackageFetched =>
              \A i \in UnknownEntries :
                  res.out.by_package_type[i].price =
                      PriceCharged(UnknownBatches[1])

\* a batch of a missing package counted with no revenue in an entry it
\* shares with an earlier batch of the package without title
C16_Witness ==
    /\ IsSalesReport
    /\ MissingPackageFetched
    /\ Len(UnknownBatches) = 2
    /\ UnknownBatches[1].package_id = 2
    /\ UnknownBatches[2].package_id = 3
    /\ res.out.total_packages = 2
    /\ res.out.total_revenue = 70
    /\ \E i \in UnknownEntries :
          /\ res.out.by_package_type[i].count = 2
          /\ res.out.by_package_type[i].revenue = 70
          /\ res.out.by_package_type[i].credits = 18

\* C16 as stated: the UnknownPackage entry of a report with a batch of a
\* missing package has unit price 0
C16_UnknownPriceZero ==
    IsSalesReport =>
        /\ MissingPackagesCounted
        /\ MissingPackageFetched =>
              \A i \in UnknownEntries : res.out.by_package_type[i].price = 0

-----------------------------------------------------------------------------
(* The sales comparison of the server: POST /api/analytics/compare.  The   *)
(* member range of each period (its two dates as text) is left out.        *)

\* the tables whose failed read makes getPackageSalesByDateRange throw
RangeReadsFailed(batchesOk, pkgOk) ==
    IF ~batchesOk THEN {"credit_batches"}
    ELSE IF ~pkgOk THEN {"packages"}
    ELSE {}

\* SignedRateTenths without the sign of the difference
SignedRateTenths_NoSign(diff, whole) ==
    IF whole > 0
    THEN RoundDiv(1000 * (IF diff >= 0 THEN diff ELSE -diff), whole)
    ELSE 0

\* whole > 0 ? ((diff / whole) * 100).toFixed(1) : 0, in tenths of a percent
SignedRateTenths(diff, whole) ==
    IF whole > 0
    THEN IF diff >= 0 THEN RoundDiv(1000 * diff, whole)
         ELSE -RoundDiv(1000 * (-diff), whole)
    ELSE 0

\* the member diff of the comparison
SalesDiff(sales1, sales2) ==
    [packages |-> sales2.total_packages - sales1.total_packages,
     packages_pct |->
         SignedRateTenths(sales2.total_packages - sales1.total_packages,
                          sales1.total_packages),
     revenue |-> sales2.total_revenue - sales1.total_revenue,
     revenue_pct |->
         SignedRateTenths(sales2.total_revenue - sales1.total_revenue,
                          sales1.total_revenue)]

\* await ensureProfiles(): the first request loads the profiles
EnsuredProfiles(profOk) ==
    IF profilesCache = NullCache
    THEN LoadedDirectory(profOk, DataOrNull(profOk, profiles))
    ELSE profilesCache

\* the handler: both reports, then the comparison, or status 500
CompareSales(period1Start, period1End, period2Start, period2End, profOk, batches1Ok, pkg1Ok, batches2Ok, pkg2Ok) ==
    /\ res = Idle
    /\ profilesCache' = EnsuredProfiles(profOk)
    /\ LET failed == RangeReadsFailed(batches1Ok, pkg1Ok)
                         \cup RangeReadsFailed(batches2Ok, pkg2Ok)
           sales1 == SalesByDateRangeReport(period1Start, period1End,
                         SalesBatches(period1Start, period1End), packages)
           sales2 == SalesByDateRangeReport(period2Start, period2End,
                         SalesBatches(period2Start, period2End), packages)
       IN  res' = IF failed # {} THEN Thrown("compare", failed)
                  ELSE Returned("compare",
                          <<period1Start, period1End,
                            period2Start, period2End>>, {},
                          [period1 |-> sales1, period2 |-> sales2,
                           diff |-> SalesDiff(sales1, sales2)])
    /\ UNCHANGED <<store, loading, now, tz, pending>>

-----------------------------------------------------------------------------
(* Specification of the sales comparison *)

\* purchases of packages 1 and 2 in January and in February 2026
CompareSaleRows ==
    {[user_id |-> "u1", package_id |-> p, credits_total |-> CreditsGranted[p],
      created_at |-> t] :
        p \in {1, 2},
        t \in {DbInstant(DateOf(2026, 1, 10)) + 10,
               DbInstant(DateOf(2026, 2, 10)) + 17}}

\* January against February, February against January, and a first period
\* without purchase
SalesComparePeriods ==
    {<<DateOf(2026, 1, 1), DateOf(2026, 1, 31),
       DateOf(2026, 2, 1), DateOf(2026, 2, 28)>>,
     <<DateOf(2026, 2, 1), DateOf(2026, 2, 28),
       DateOf(2026, 1, 1), DateOf(2026, 1, 31)>>,
     <<DateOf(2026, 3, 1), DateOf(2026, 3, 31),
       DateOf(2026, 1, 1), DateOf(2026, 2, 28)>>}

InitCompare ==
    /\ creditBatches \in {b \in SeqUpTo(CompareSaleRows, MaxBatches) :
                            IsCreatedAscending(b)}
    /\ packages = ReadsPackages
    /\ profiles \in {<<>>, <<[id |-> "a1b2c3d4-0001", full_name |-> "Ana Ruiz",
                             phone |-> "555-0101"]>>}
    /\ bookings = <<>> /\ sessions = <<>>
    /\ profilesCache = NullCache
    /\ now = ReadsNow
    /\ tz = 0
    /\ loading = {}
    /\ pending = NoCall
    /\ res = Idle

NextCompare ==
    \/ \E p \in SalesComparePeriods, profOk \in BOOLEAN,
          batches1Ok \in BOOLEAN, pkg1Ok \in BOOLEAN,
          batches2Ok \in BOOLEAN, pkg2Ok \in BOOLEAN :
          CompareSales(p[1], p[2], p[3], p[4], profOk, batches1Ok, pkg1Ok,
                       batches2Ok, pkg2Ok)
    \/ Deliver

SpecCompare == InitCompare /\ [][NextCompare]_vars

IsComparison == res.status = "ok" /\ res.op = "compare"

\* tenths is delta / whole * 100 to one decimal: within 0.05 of it
IsPercentTenths(tenths, delta, whole) ==
    /\ 2 * (tenths * whole - 1000 * delta) <= whole
    /\ 2 * (1000 * delta - tenths * whole) <= whole

\* C17: the comparison of two periods has diff.packages and diff.revenue
\* equal to the period 2 total minus the period 1 total, packages_pct and
\* revenue_pct equal to the difference over the period 1 value times 100 to
\* one decimal, and a percentage of 0 when the period 1 value is 0.
C17_DiffAndPercentages ==
    IsComparison =>
        LET sales1 == res.out.period1
            sales2 == res.out.period2
            diff == res.out.diff
        IN  /\ sales1.total_packages =
                  Len(SalesBatches(res.args[1], res.args[2]))
            /\ sales2.total_packages =
                  Len(SalesBatches(res.args[3], res.args[4]))
            /\ diff.packages = sales2.total_packages - sales1.total_packages
            /\ diff.revenue = sales2.total_revenue - sales1.total_revenue
            /\ IF sales1.total_packages = 0 THEN diff.packages_pct = 0
               ELSE IsPercentTenths(diff.packages_pct, diff.packages,
                                    sales1.total_packages)
            /\ IF sales1.total_revenue = 0 THEN diff.revenue_pct = 0
               ELSE IsPercentTenths(diff.revenue_pct, diff.revenue,
                                    sales1.total_revenue)

\* two purchases for 150 against one for 100: -1 package (-50.0 %) and
\* -50 of revenue (-33.3 %)
C17_Witness ==
    /\ IsComparison
    /\ res.out.period1.total_packages = 2
    /\ res.out.period1.total_revenue = 150
    /\ res.out.diff.packages = -1
    /\ res.out.diff.packages_pct = -500
    /\ res.out.diff.revenue = -50
    /\ res.out.diff.revenue_pct = -333

\* a first period without purchase: both percentages are 0
C17_WitnessEmptyFirstPeriod ==
    /\ IsComparison
    /\ res.out.period1.total_packages = 0
    /\ res.out.period2.total_packages > 0
    /\ res.out.diff.packages_pct = 0 /\ res.out.diff.revenue_pct = 0

-----------------------------------------------------------------------------
(* Specification of the names and phones shown by the computations, for a  *)
(* cache never loaded, loaded empty, and loaded with profiles              *)

InitNames ==
    /\ creditBatches \in SeqUpTo(BuyerRows, MaxBatches)
    /\ bookings \in {<<>>, ReadsBookings}
    /\ packages = ReadsPackages
    /\ profiles = <<>> /\ sessions = <<>>
    /\ profilesCache \in {NullCache, Loaded(EmptyDirectory),
                          Loaded(SampleDirectory)}
    /\ now = DbInstant(DateOf(2027, 1, 1))
    /\ tz = 0
    /\ loading = {}
    /\ pending = NoCall
    /\ res = Idle

NextNames ==
    \/ \E limit \in Limits, batchesOk \in BOOLEAN, pkgOk \in BOOLEAN :
          GetTopBuyers(2026, limit, batchesOk, pkgOk)
    \/ \E limit \in Limits, batchesOk \in BOOLEAN, pkgOk \in BOOLEAN :
          GetTopBuyersByDateRange(DateOf(2026, 1, 1), DateOf(2027, 1, 1),
                                  limit, batchesOk, pkgOk)
    \/ \E bookingsOk \in BOOLEAN, batchesOk \in BOOLEAN :
          GetDormantClients(RollingWindowDays, 0, bookingsOk, batchesOk)
    \/ \E page \in 1..MaxPage, bookingsOk \in BOOLEAN, batchesOk \in BOOLEAN :
          GetDormantClientsPaginated(RollingWindowDays, page, MaxPageSize, 0,
                                     bookingsOk, batchesOk)
    \/ Deliver

SpecNames == InitNames /\ [][NextNames]_vars

\* the entries of a dormant-client or top-buyer result
IdentifiedEntries ==
    IF res.status # "ok" THEN <<>>
    ELSE IF res.op \in {"getTopBuyers", "getTopBuyersByDateRange"}
    THEN res.out
    ELSE IF res.op \in {"getDormantClients", "getDormantClientsPaginated"}
    THEN res.out.clients
    ELSE <<>>

HasProfile(userId) ==
    profilesCache # NullCache /\ userId \in DOMAIN profilesCache[1]

\* the string has a character that is not a space
HasText(str) == \E i \in 1..Len(str) : SubSeq(str, i, i) # " "

\* the first n characters of a string
FirstChars(str, n) ==
    IF Len(str) <= n THEN str ELSE SubSeq(str, 1, n)

\* C18: for every user of a dormant-client or top-buyer result, full_name
\* is the profile's full_name when the profile exists and the name is not
\* blank, else the fixed prefix and the first 8 characters of user_id;
\* phone is the profile's phone when present and not blank, else the fixed
\* sentinel; also when the cache was never loaded or was loaded empty.
C18_NameAndPhoneOrFallback ==
    \A i \in DOMAIN IdentifiedEntries :
        LET e == IdentifiedEntries[i]
            u == e.user_id
        IN  /\ e.full_name =
                  IF HasProfile(u) /\ HasText(profilesCache[1][u].full_name)
                  THEN profilesCache[1][u].full_name
                  ELSE "Usuario " \o FirstChars(u, 8)
            /\ e.phone =
                  IF HasProfile(u) /\ HasText(profilesCache[1][u].phone)
                  THEN profilesCache[1][u].phone
                  ELSE "Sin teléfono"

\* a list with a user shown by profile, one whose profile is blank and one
\* without profile
C18_Witness ==
    /\ profilesCache = Loaded(SampleDirectory)
    /\ \E i, j, k \in DOMAIN IdentifiedEntries :
          /\ IdentifiedEntries[i].full_name = "Ana Ruiz"
          /\ IdentifiedEntries[i].phone = "555-0101"
          /\ IdentifiedEntries[j].user_id = "a1b2c3d4-0002"
          /\ IdentifiedEntries[j].full_name = "Usuario a1b2c3d4"
          /\ IdentifiedEntries[j].phone = "Sin teléfono"
          /\ IdentifiedEntries[k].full_name = "Usuario e5f6"

\* the same users shown by fallback when the cache was never loaded
C18_WitnessNeverLoaded ==
    /\ profilesCache = NullCache
    /\ \E i \in DOMAIN IdentifiedEntries :
          /\ IdentifiedEntries[i].user_id = "a1b2c3d4-0001"
          /\ IdentifiedEntries[i].full_name = "Usuario a1b2c3d4"
          /\ IdentifiedEntries[i].phone = "Sin teléfono"

-----------------------------------------------------------------------------
(* The number of registered users in the retention metrics *)

\* the number of entries of the cache, 0 when it was never loaded
CacheSize ==
    IF profilesCache = NullCache THEN 0
    ELSE Cardinality(DOMAIN profilesCache[1])

\* C19: getRetentionMetrics reports total_registered_users equal to the
\* number of entries of the profile cache when the cache holds profiles,
\* and equal to total_unique_users when the cache was never loaded or was
\* loaded with no profile.
C19_RegisteredUsersFromCache ==
    IsRetentionReport =>
        res.out.total_registered_users =
            IF CacheSize > 0 THEN CacheSize ELSE res.out.total_unique_users

\* two profiles in the cache and one user with bookings: 2 is reported
C19_Witness ==
    /\ IsRetentionReport
    /\ CacheSize = 2
    /\ res.out.total_unique_users = 1
    /\ res.out.total_registered_users = 2

\* an empty cache and one user with bookings: 1 is reported
C19_WitnessEmptyCache ==
    /\ IsRetentionReport
    /\ profilesCache = Loaded(EmptyDirectory)
    /\ res.out.total_unique_users = 1
    /\ res.out.total_registered_users = 1

-----------------------------------------------------------------------------
(* getPopularClasses and getAttendanceStats, the two remaining computations *)
(* that getDashboardSummary and the PDF endpoint run                        *)

\* dayMap: dayjs(date).day() to the name of the day
DayMap ==
    <<"DOMINGO", "LUNES", "MARTES", "MIÉRCOLES", "JUEVES", "VIERNES", "SÁBADO">>

\* sessions?.forEach(s => dayStats[s.day_name] = {...}): the last session of
\* a day replaces the entry, the key keeps its place
RECURSIVE DayStatsOfSessions(_, _)
DayStatsOfSessions(dayStats, sess) ==
    IF sess = <<>> THEN dayStats
    ELSE LET s == Head(sess)
             fresh == [key |-> s.day_name, name |-> s.class_name,
                       subtitle |-> s.class_subtitle, day |-> s.day_name,
                       count |-> 0, attendees |-> 0]
             i == IndexOfKey(dayStats, s.day_name)
         IN  DayStatsOfSessions(
                 IF i = 0 THEN Append(dayStats, fresh)
                 ELSE [dayStats EXCEPT ![i] = fresh],
                 Tail(sess))

\* bookings?.forEach(b => { if (dayStats[dayName]) { count++; attendees += } })
RECURSIVE DayStatsOfBookings(_, _)
DayStatsOfBookings(dayStats, rows) ==
    IF rows = <<>> THEN dayStats
    ELSE LET b == Head(rows)
             i == IF b.session_date = NoDate THEN 0
                  ELSE IndexOfKey(dayStats,
                                  DayMap[DayjsWeekday(b.session_date) + 1])
         IN  DayStatsOfBookings(
                 IF i = 0 THEN dayStats
                 ELSE [dayStats EXCEPT ![i].count = @ + 1,
                                       ![i].attendees = @ + AttendeesOf(b)],
                 Tail(rows))

\* Object.values(dayStats).filter(d => d.count > 0).sort(by attendees, desc)
PopularClassesReport(sess, rows) ==
    LET Counted(d) == d.count > 0
        Before(a, b) == b.attendees - a.attendees < 0
    IN  SortStable(Before,
            FilterSeq(Counted,
                DayStatsOfBookings(DayStatsOfSessions(<<>>, sess), rows)))

\* neither read is checked for an error: a failed one gives no rows
GetPopularClasses(sessionsOk, bookingsOk) ==
    /\ res = Idle
    /\ res' = Returned("getPopularClasses", <<>>,
                  ReadOf("sessions", sessionsOk)
                      \cup ReadOf("bookings", bookingsOk),
                  PopularClassesReport(DataOrNull(sessionsOk, sessions),
                      DataOrNull(bookingsOk, ActiveBookings(bookings))))
    /\ UNCHANGED <<store, profilesCache, loading, now, tz, pending>>

\* coachStats and timeStats: one entry per coach_name and per session_time,
\* in the order of their first booking
RECURSIVE CoachStats(_, _)
CoachStats(coachStats, rows) ==
    IF rows = <<>> THEN coachStats
    ELSE LET b == Head(rows)
             i == IndexOfKey(coachStats, b.coach_name)
             base == IF i = 0
                     THEN Append(coachStats,
                              [key |-> b.coach_name, name |-> b.coach_name,
                               classes |-> 0, attendees |-> 0])
                     ELSE coachStats
             j == IF i = 0 THEN Len(base) ELSE i
         IN  CoachStats([base EXCEPT ![j].classes = @ + 1,
                                     ![j].attendees = @ + AttendeesOf(b)],
                        Tail(rows))

RECURSIVE TimeStats(_, _)
TimeStats(timeStats, rows) ==
    IF rows = <<>> THEN timeStats
    ELSE LET b == Head(rows)
             i == IndexOfKey(timeStats, b.session_time)
             base == IF i = 0
                     THEN Append(timeStats,
                              [key |-> b.session_time, time |-> b.session_time,
                               count |-> 0, attendees |-> 0])
                     ELSE timeStats
             j == IF i = 0 THEN Len(base) ELSE i
         IN  TimeStats([base EXCEPT ![j].count = @ + 1,
                                    ![j].attendees = @ + AttendeesOf(b)],
                       Tail(rows))

\* {by_coach, by_time, total_bookings, total_attendees}
AttendanceStatsReport(rows) ==
    LET ByAttendees(a, b) == b.attendees - a.attendees < 0
        ByCount(a, b) == b.count - a.count < 0
    IN  [by_coach |-> SortStable(ByAttendees, CoachStats(<<>>, rows)),
         by_time |-> SortStable(ByCount, TimeStats(<<>>, rows)),
         total_bookings |-> Len(rows),
         total_attendees |->
             SumSeq([i \in DOMAIN rows |-> AttendeesOf(rows[i])])]

\* GetAttendanceStats clearing the profile cache on its way
GetAttendanceStats_ResetsCache(ok) ==
    /\ res = Idle
    /\ res' = Returned("getAttendanceStats", <<>>, ReadOf("bookings", ok),
                  AttendanceStatsReport(
                      DataOrNull(ok, ActiveBookings(bookings))))
    /\ profilesCache' = NullCache
    /\ UNCHANGED <<store, loading, now, tz, pending>>

\* the read is not checked for an error: a failed one gives no rows
GetAttendanceStats(ok) ==
    /\ res = Idle
    /\ res' = Returned("getAttendanceStats", <<>>, ReadOf("bookings", ok),
                  AttendanceStatsReport(
                      DataOrNull(ok, ActiveBookings(bookings))))
    /\ UNCHANGED <<store, profilesCache, loading, now, tz, pending>>

-----------------------------------------------------------------------------
(* Specification of getDashboardSummary and of the PDF endpoint: a call of *)
(* loadProfiles, then the computations of Promise.all over one store that  *)
(* nothing changes.  A computation runs from one await to the next;        *)
(* getRetentionMetrics, with its four reads, is suspended while the others *)
(* run.                                                                    *)

DashboardBookings ==
    <<[user_id |-> "a1b2c3d4-0001", session_date |-> DateOf(2026, 2, 23),
       created_at |-> DbInstant(DateOf(2026, 2, 20)), status |-> "active",
       session_time |-> "09:00:00", total_attendees |-> 8,
       coach_name |-> "Sofi"],
      [user_id |-> "a1b2c3d4-0002", session_date |-> DateOf(2026, 1, 12),
       created_at |-> DbInstant(DateOf(2026, 1, 10)), status |-> "active",
       session_time |-> "18:30:00", total_attendees |-> 0,
       coach_name |-> "Dani"],
      [user_id |-> "e5f6", session_date |-> DateOf(2026, 2, 24),
       created_at |-> DbInstant(DateOf(2026, 2, 21)), status |-> "cancelled",
       session_time |-> "09:00:00", total_attendees |-> 3,
       coach_name |-> "Sofi"]>>

DashboardProfiles ==
    <<[id |-> "a1b2c3d4-0001", full_name |-> "Ana Ruiz", phone |-> "555-0101"],
      [id |-> "e5f6", full_name |-> "Eva Paz", phone |-> ""]>>

InitDashboard ==
    /\ bookings \in {<<>>, DashboardBookings}
    /\ creditBatches \in {<<>>, ReadsBatches}
    /\ packages = ReadsPackages
    /\ sessions = ReadsSessions
    /\ profiles \in {<<>>, DashboardProfiles}
    /\ profilesCache = NullCache
    /\ now = ReadsNow
    /\ tz = 0
    /\ loading = {}
    /\ pending = NoCall
    /\ res = Idle

NextDashboard ==
    \/ \E c \in Loaders : LoadProfilesCall(c)
    \/ \E c \in Loaders, ok \in BOOLEAN : LoadProfilesResume(c, ok)
    \/ \E ok \in BOOLEAN : RetentionReadAllBookings(ok)
    \/ \E ok \in BOOLEAN : RetentionReadRecentBookings(ok)
    \/ \E ok \in BOOLEAN : RetentionReadAllBatches(ok)
    \/ \E ok \in BOOLEAN : RetentionReadActiveBatches(ok)
    \/ \E batchesOk \in BOOLEAN, pkgOk \in BOOLEAN :
          GetPackageSalesByMonth(2026, batchesOk, pkgOk)
    \/ \E batchesOk \in BOOLEAN, pkgOk \in BOOLEAN :
          GetTopBuyers(2026, 5, batchesOk, pkgOk)
    \/ \E sessionsOk \in BOOLEAN, bookingsOk \in BOOLEAN :
          GetPopularClasses(sessionsOk, bookingsOk)
    \/ \E ok \in BOOLEAN : GetAttendanceStats(ok)
    \/ \E days \in {30, 60, 90}, bookingsOk \in BOOLEAN, batchesOk \in BOOLEAN :
          GetDormantClients(days, 0, bookingsOk, batchesOk)
    \/ \E bookingsOk \in BOOLEAN, sessionsOk \in BOOLEAN :
          GetWeeklySchedule(bookingsOk, sessionsOk)
    \/ Deliver

SpecDashboard == InitDashboard /\ [][NextDashboard]_vars

\* what getRetentionMetrics gives when nothing runs between its four reads,
\* all of them succeeding, over the store and the cache as they are
RetentionAlone ==
    LET users == DistinctUsers(bookings)
        since == now - RollingWindowDays * HoursPerDay
        active30 == DistinctUsers(BookingsSince(bookings, LocalDay(since)))
        buyers == DistinctUsers(creditBatches)
        withCredits == BatchesWithCredits(creditBatches)
    IN  [total_registered_users |-> ProfileCount(users),
         total_unique_users |-> users,
         active_users_30_days |-> active30,
         total_buyers_ever |-> buyers,
         buyers_last_30_days |->
             DistinctUsers(BatchesAfter(creditBatches, since)),
         users_with_credits |-> DistinctUsers(withCredits),
         total_credits_pending |->
             SumSeq([i \in DOMAIN withCredits |->
                        withCredits[i].credits_remaining]),
         retention_rate |-> RateTenths(active30, users),
         conversion_rate |-> RateTenths(buyers, users)]

\* C20: a step of any computation other than loadProfiles leaves the
\* profile cache as it was; no computation touches the locals of the
\* getRetentionMetrics call suspended at one of its reads; and the report of
\* a getRetentionMetrics call between whose reads other computations ran is
\* the report it gives when run alone over the same store.
C20_ComputationsDoNotInterfere ==
    /\ [][loading' = loading => profilesCache' = profilesCache]_vars
    /\ [][(pending # NoCall /\ pending'.pc = pending.pc)
             => pending' = pending]_vars
    /\ [](IsRetentionReport /\ res.failed = {} => res.out = RetentionAlone)

\* getTopBuyers has returned, with the cache loaded, while a call of
\* getRetentionMetrics is suspended at its third read
C20_Witness ==
    /\ pending # NoCall
    /\ pending.pc = "allBatches"
    /\ res.status = "ok"
    /\ res.op = "getTopBuyers"
    /\ res.failed = {}
    /\ Len(res.out) > 0
    /\ profilesCache = Loaded(DirectoryOf(DashboardProfiles))

-----------------------------------------------------------------------------
(* Specification of the favourite package: purchases of packages whose     *)
(* titles are words and of a package whose title is a number               *)

\* "10" is the title of the pack of ten classes
FavoritePackageTables ==
    {<<[id |-> 1, title |-> "A", price |-> 100],
       [id |-> 2, title |-> "B", price |-> 50]>>,
     <<[id |-> 1, title |-> "A", price |-> 100],
       [id |-> 2, title |-> "10", price |-> 50]>>}

\* purchases on 2026-06-10 10:00 by two users of packages 1, 2 and of a
\* package that is missing
FavoriteRows ==
    {[user_id |-> u, package_id |-> p, credits_total |-> 5,
      created_at |-> DbInstant(DateOf(2026, 6, 10)) + 10] :
        u \in {"a1b2c3d4-0001", "e5f6"}, p \in {1, 2, 3}}

InitFavorite ==
    /\ creditBatches \in SeqUpTo(FavoriteRows, MaxBatches)
    /\ packages \in FavoritePackageTables
    /\ profilesCache = Loaded(SampleDirectory)
    /\ tz = 0
    /\ profiles = <<>> /\ bookings = <<>> /\ sessions = <<>>
    /\ now = DbInstant(DateOf(2027, 1, 1))
    /\ loading = {}
    /\ pending = NoCall
    /\ res = Idle

NextFavorite ==
    \/ \E batchesOk \in BOOLEAN, pkgOk \in BOOLEAN :
          GetTopBuyers(2026, MaxLimit, batchesOk, pkgOk)
    \/ \E batchesOk \in BOOLEAN, pkgOk \in BOOLEAN :
          GetTopBuyersByDateRange(DateOf(2026, 1, 1), DateOf(2027, 1, 1),
                                  MaxLimit, batchesOk, pkgOk)
    \/ Deliver

SpecFavorite == InitFavorite /\ [][NextFavorite]_vars

Occurrences(list, t) == Cardinality({i \in DOMAIN list : list[i] = t})
FirstOccurrence(list, t) ==
    CHOOSE i \in DOMAIN list :
        list[i] = t /\ \A j \in DOMAIN list : list[j] = t => i <= j

\* t occurs in list as often as any title, and before every other title
\* that occurs as often
IsFirstMostFrequent(list, t) ==
    /\ \E i \in DOMAIN list : list[i] = t
    /\ \A i \in DOMAIN list :
          /\ Occurrences(list, list[i]) <= Occurrences(list, t)
          /\ Occurrences(list, list[i]) = Occurrences(list, t)
                => FirstOccurrence(list, t) <= i

\* C21: in every entry of both top-buyer lists favorite_package is a title
\* that occurs in the user's purchase list as often as any other, and among
\* the titles that occur that often it is the one that occurs first.
C21_FavoriteIsFirstMostFrequent ==
    IsBuyerList =>
        \A i \in DOMAIN res.out :
            IsFirstMostFrequent(res.out[i].packages,
                                res.out[i].favorite_package)

-----------------------------------------------------------------------------
(* The order of the dormant clients *)

\* the user ids of the fetched rows in the order the two forEach loops see
\* them: the active bookings, then the credit batches
FetchedUserIds ==
    LET b == ActiveBookingsBySessionDesc(bookings)
        c == OrderByCreatedDesc(creditBatches)
    IN  [i \in DOMAIN b |-> b[i].user_id] \o [i \in DOMAIN c |-> c[i].user_id]

\* the place of a user's first event among the fetched rows
FirstInserted(userId) ==
    CHOOSE i \in DOMAIN FetchedUserIds :
        /\ FetchedUserIds[i] = userId
        /\ \A j \in DOMAIN FetchedUserIds :
              FetchedUserIds[j] = userId => i <= j

\* C22: the clients of getDormantClients come in the order of
\* non-increasing days_inactive; each days_inactive is the number of whole
\* days from the client's last activity to the clock reading; total is the
\* length of clients; clients of equal days_inactive come in the order in
\* which their users were first inserted into the activity index.
C22_DormantOrder ==
    IsDormantReport =>
        LET clients == res.out.clients
            diffClock == res.args[3]
        IN  /\ res.out.total = Len(clients)
            /\ \A i \in DOMAIN clients :
                  LET last == SetMax(ActivityInstants(clients[i].user_id))
                      d == clients[i].days_inactive
                  IN  /\ d * HoursPerDay <= diffClock - last
                      /\ diffClock - last < (d + 1) * HoursPerDay
            /\ \A i, j \in DOMAIN clients :
                  i < j =>
                    /\ clients[i].days_inactive >= clients[j].days_inactive
                    /\ clients[i].days_inactive = clients[j].days_inactive
                          => FirstInserted(clients[i].user_id)
                                 < FirstInserted(clients[j].user_id)

\* three clients: two of equal days_inactive, and behind them the client
\* whose user was inserted first
C22_Witness ==
    /\ IsDormantReport
    /\ Len(res.out.clients) = 3
    /\ res.out.total = 3
    /\ res.out.clients[1].days_inactive = res.out.clients[2].days_inactive
    /\ res.out.clients[2].days_inactive > res.out.clients[3].days_inactive
    /\ FirstInserted(res.out.clients[3].user_id) = 1

-----------------------------------------------------------------------------
(* The occurrences and the attendees of a slot of the weekly schedule *)

\* the fetched bookings of a weekday whose time of day (hours and minutes)
\* is that of the slot
BookingsOfSlot(day, time) ==
    {i \in EligibleForSchedule :
        /\ DayNames[DayjsWeekday(bookings[i].session_date) + 1] = day
        /\ Substring0(bookings[i].session_time, 5) = time}

\* the attendees a booking stands for: at least the person who booked
CountedAttendees(b) == IF b.total_attendees = 0 THEN 1 ELSE b.total_attendees

\* a schedule of a bookings read that succeeded
IsFullSchedule == IsScheduleReport /\ "bookings" \notin res.failed

\* C23: in every slot of the weekly schedule total_classes is the number
\* of distinct dates of that weekday with a fetched booking at the slot's
\* time, several bookings of one date and time being one occurrence, and
\* total_attendees is the sum over those bookings of total_attendees, a
\* booking without total_attendees (or with 0) counting as 1.
C23_SlotCountsOccurrences ==
    IsFullSchedule =>
        \A day \in DOMAIN res.out : \A i \in DOMAIN res.out[day] :
            LET slot == res.out[day][i]
                of == BookingsOfSlot(day, slot.time)
            IN  /\ slot.total_classes =
                      Cardinality({bookings[k].session_date : k \in of})
                /\ slot.total_attendees =
                      SumOfSet([k \in DOMAIN bookings |->
                                   CountedAttendees(bookings[k])], of)

\* the statement as written: total_attendees is the plain sum of the
\* bookings' total_attendees
C23_PlainSumOfAttendees ==
    IsFullSchedule =>
        \A day \in DOMAIN res.out : \A i \in DOMAIN res.out[day] :
            LET slot == res.out[day][i]
                of == BookingsOfSlot(day, slot.time)
            IN  /\ slot.total_classes =
                      Cardinality({bookings[k].session_date : k \in of})
                /\ slot.total_attendees =
                      SumOfSet([k \in DOMAIN bookings |->
                                   bookings[k].total_attendees], of)

\* Monday 09:00 from three bookings: two of 2026-02-23 (8 attendees and
\* none given) and one of 2026-02-16 (12): two occurrences, 21 attendees
C23_Witness ==
    /\ IsFullSchedule
    /\ Len(bookings) = 3
    /\ \E i \in DOMAIN res.out["LUNES"] :
          LET slot == res.out["LUNES"][i]
          IN  /\ slot.time = "09:00"
              /\ slot.total_classes = 2
              /\ slot.total_attendees = 21
              /\ Cardinality(BookingsOfSlot("LUNES", "09:00")) = 3

-----------------------------------------------------------------------------
(* The metadata of the slots of the weekly schedule *)

\* the templates of a weekday, in fetch order
TemplatesOfDay(templates, day) ==
    LET On(t) == t.day_name = day
    IN  FilterSeq(On, templates)

\* class name, subtitle and capacity of the first template of a weekday,
\* with 'Clase' for a template without class name, 14 for one without
\* max_spots, and 'Clase', '' and 14 for a weekday without template
MetadataOfDay(templates, day) ==
    LET of == TemplatesOfDay(templates, day)
    IN  IF of = <<>>
        THEN [class_name |-> "Clase", subtitle |-> "", max_capacity |-> 14]
        ELSE [class_name |-> IF of[1].class_name = "" THEN "Clase"
                             ELSE of[1].class_name,
              subtitle |-> of[1].class_subtitle,
              max_capacity |-> IF of[1].max_spots = 0 THEN 14
                               ELSE of[1].max_spots]

\* C24: every slot of a weekday carries the class name, the subtitle and
\* the capacity of the first session template of that weekday in fetch
\* order (the defaults where the template gives none), whatever the slot's
\* time; templates that come later for the weekday change nothing.
C24_MetadataOfFirstTemplate ==
    IsFullSchedule =>
        \A day \in DOMAIN res.out : \A i \in DOMAIN res.out[day] :
            LET slot == res.out[day][i]
                meta == MetadataOfDay(TemplatesForRes, day)
            IN  /\ slot.class_name = meta.class_name
                /\ slot.subtitle = meta.subtitle
                /\ slot.max_capacity = meta.max_capacity

\* two Monday slots, 09:00 and 18:30, and two Monday templates: both slots
\* carry the first template's Rage Ride, Cardio and 20
C24_Witness ==
    /\ IsFullSchedule
    /\ Len(TemplatesOfDay(TemplatesForRes, "LUNES")) = 2
    /\ Len(res.out["LUNES"]) = 2
    /\ res.out["LUNES"][1].time = "09:00"
    /\ res.out["LUNES"][2].time = "18:30"
    /\ \A i \in 1..2 :
          /\ res.out["LUNES"][i].class_name = "Rage Ride"
          /\ res.out["LUNES"][i].subtitle = "Cardio"
          /\ res.out["LUNES"][i].max_capacity = 20

-----------------------------------------------------------------------------
(* Who can be dormant *)

HasActiveBooking(userId) ==
    \E i \in DOMAIN bookings :
        bookings[i].user_id = userId /\ bookings[i].status = "active"

HasCreditBatch(userId) ==
    \E i \in DOMAIN creditBatches : creditBatches[i].user_id = userId

\* C25: every client of getDormantClients has an active booking or a
\* credit batch; a user whose only events are cancelled bookings is in no
\* list, whatever the threshold.
C25_OnlyUsersWithEvents ==
    IsDormantReport =>
        \A i \in DOMAIN res.out.clients :
            \/ HasActiveBooking(res.out.clients[i].user_id)
            \/ HasCreditBatch(res.out.clients[i].user_id)

\* a list with a client, from a store where another user has nothing but
\* a cancelled booking older than the cutoff
C25_Witness ==
    /\ IsDormantReport
    /\ Len(res.out.clients) > 0
    /\ \E i \in DOMAIN bookings :
          /\ bookings[i].user_id = "e5f6"
          /\ bookings[i].status = "cancelled"
          /\ LocalMidnight(bookings[i].session_date)
                 < res.args[2] - res.args[1] * HoursPerDay
    /\ ~HasActiveBooking("e5f6") /\ ~HasCreditBatch("e5f6")
    /\ "e5f6" \notin ClientIds(res.out.clients)

-----------------------------------------------------------------------------
(* days_inactive against the threshold *)

\* C26: every client of getDormantClients(thresholdDays) has days_inactive
\* of at least thresholdDays, also when the clock read for days_inactive is
\* later than the clock read for the cutoff.
C26_DaysInactiveAtLeastThreshold ==
    IsDormantReport =>
        \A i \in DOMAIN res.out.clients :
            res.out.clients[i].days_inactive >= res.args[1]

\* a client whose days_inactive is the threshold itself, the clock having
\* advanced between the two readings
C26_Witness ==
    /\ IsDormantReport
    /\ res.args[3] > res.args[2]
    /\ \E i \in DOMAIN res.out.clients :
          res.out.clients[i].days_inactive = res.args[1]

-----------------------------------------------------------------------------
(* The three getDormantClients calls of getDashboardSummary.  Promise.all  *)
(* starts them together; each has its own reads and reads the clock when   *)
(* its reads have ended, in whatever order that happens.                   *)

DashboardThresholds == {30, 60, 90}

\* Promise.all([..., getDormantClients(30), getDormantClients(60),
\* getDormantClients(90)]) is entered
DashboardDormancyStart ==
    /\ res = Idle /\ pending = NoCall
    /\ pending' = [pc |-> "dormancy", results |-> <<>>, clocks |-> <<>>]
    /\ UNCHANGED <<store, profilesCache, loading, now, tz, res>>

\* the clock advances while the calls wait for their reads
DashboardClockTick ==
    /\ pending # NoCall /\ pending.pc = "dormancy"
    /\ now < DormantNow + MaxClockDrift
    /\ now' = now + 1
    /\ UNCHANGED <<store, profilesCache, loading, tz, pending, res>>

\* the reads of getDormantClients(d) have ended: a failed read rejects the
\* Promise.all, else the call reads the clock and gives its result
DashboardDormancyCall(d, bookingsOk, batchesOk) ==
    /\ pending # NoCall /\ pending.pc = "dormancy"
    /\ ~\E i \in DOMAIN pending.results : pending.results[i].cutoff_days = d
    /\ IF bookingsOk /\ batchesOk
       THEN /\ pending' =
                  [pending EXCEPT
                      !.results = Append(@, DormantReport(d, now, now)),
                      !.clocks = Append(@, now)]
            /\ UNCHANGED res
       ELSE /\ res' = Thrown("getDashboardSummary",
                             IF bookingsOk THEN {"credit_batches"}
                             ELSE {"bookings"})
            /\ pending' = NoCall
    /\ UNCHANGED <<store, profilesCache, loading, now, tz>>

\* the result of getDormantClients(d) among the results of Promise.all
DormantResultOf(results, d) ==
    results[CHOOSE i \in DOMAIN results : results[i].cutoff_days = d]

\* dormant_clients: {'30_days', '60_days', '90_days', clients_30_days}
DormantClientsSummary(dormant30, dormant60, dormant90) ==
    [days_30 |-> dormant30.total,
     days_60 |-> dormant60.total,
     days_90 |-> dormant90.total,
     clients_30_days |-> Slice(dormant30.clients, 0, 10)]

\* the three calls have given their results: the summary is returned
DashboardDormancyReturn ==
    /\ pending # NoCall /\ pending.pc = "dormancy"
    /\ Len(pending.results) = Cardinality(DashboardThresholds)
    /\ res = Idle
    /\ res' = Returned("getDashboardSummary",
                  <<pending.results, pending.clocks>>, {},
                  DormantClientsSummary(
                      DormantResultOf(pending.results, 30),
                      DormantResultOf(pending.results, 60),
                      DormantResultOf(pending.results, 90)))
    /\ pending' = NoCall
    /\ UNCHANGED <<store, profilesCache, loading, now, tz>>

\* bookings 91 and 60 days before today
ThresholdBookingRows ==
    {[user_id |-> "a1b2c3d4-0001", session_date |-> DormantToday - 91,
      created_at |-> DormantNow - 95 * HoursPerDay, status |-> "active"],
     [user_id |-> "a1b2c3d4-0002", session_date |-> DormantToday - 60,
      created_at |-> DormantNow - 95 * HoursPerDay, status |-> "active"]}

\* purchases exactly 90 days, exactly 60 days and 31 days before now
ThresholdBatchRows ==
    {[user_id |-> "a1b2c3d4-0001", created_at |-> DormantNow - 90 * HoursPerDay],
     [user_id |-> "e5f6", created_at |-> DormantNow - 60 * HoursPerDay],
     [user_id |-> "e5f6", created_at |-> DormantNow - 31 * HoursPerDay]}

InitThresholds ==
    /\ bookings \in {b \in SeqUpTo(ThresholdBookingRows, MaxDormantRows) :
                        \A i \in 1..(Len(b) - 1) :
                            b[i].session_date >= b[i + 1].session_date}
    /\ creditBatches \in {c \in SeqUpTo(ThresholdBatchRows, MaxDormantRows) :
                            \A i \in 1..(Len(c) - 1) :
                                c[i].created_at >= c[i + 1].created_at}
    /\ profiles = <<>> /\ packages = <<>> /\ sessions = <<>>
    /\ profilesCache = Loaded(SampleDirectory)
    /\ now = DormantNow
    /\ tz = 0
    /\ loading = {}
    /\ pending = NoCall
    /\ res = Idle

NextThresholds ==
    \/ DashboardDormancyStart
    \/ DashboardClockTick
    \/ \E d \in DashboardThresholds, bookingsOk \in BOOLEAN,
          batchesOk \in BOOLEAN :
          DashboardDormancyCall(d, bookingsOk, batchesOk)
    \/ DashboardDormancyReturn
    \/ Deliver

SpecThresholds == InitThresholds /\ [][NextThresholds]_vars

IsDormancySummary == res.status = "ok" /\ res.op = "getDashboardSummary"

\* C27: the three dormancy results of one dashboard summary are nested:
\* every client of the 90-day list is in the 60-day list and every client
\* of the 60-day list is in the 30-day list, so that 90_days <= 60_days <=
\* 30_days, whatever the order in which the three calls read the clock.
C27_DormancyMonotone ==
    IsDormancySummary =>
        LET Ids(d) == ClientIds(DormantResultOf(res.args[1], d).clients)
        IN  /\ Ids(90) \subseteq Ids(60)
            /\ Ids(60) \subseteq Ids(30)
            /\ res.out.days_90 <= res.out.days_60
            /\ res.out.days_60 <= res.out.days_30
            /\ res.out.days_30 = Cardinality(Ids(30))
            /\ res.out.days_60 = Cardinality(Ids(60))
            /\ res.out.days_90 = Cardinality(Ids(90))

\* counts 1 < 2 < 3, the 90-day call having read the clock after the
\* 30-day call
C27_Witness ==
    /\ IsDormancySummary
    /\ res.out.days_90 = 1 /\ res.out.days_60 = 2 /\ res.out.days_30 = 3
    /\ \E i, j \in DOMAIN res.args[1] :
          /\ res.args[1][i].cutoff_days = 90
          /\ res.args[1][j].cutoff_days = 30
          /\ res.args[2][i] > res.args[2][j]

-----------------------------------------------------------------------------
(* The two sales entry points on one year *)

\* what getPackageSalesByDateRange(year-01-01, year-12-31) gives on the
\* store that gave res
RangeReportOfYear(year) ==
    SalesByDateRangeReport(DateOf(year, 1, 1), DateOf(year, 12, 31),
        SalesBatches(DateOf(year, 1, 1), DateOf(year, 12, 31)), packages)

\* a bucket without its year
MonthCountRevenueCredits(b) ==
    [month |-> b.month, count |-> b.count, revenue |-> b.revenue,
     credits |-> b.credits]

HasSales(b) == b.count > 0

\* C28: getPackageSalesByMonth(year) and getPackageSalesByDateRange(
\* year-01-01, year-12-31) give the same total_packages, total_revenue and
\* by_package_type, and the by_month of the range variant is the twelve
\* buckets of the year variant without the months that have no sale.
C28_EntryPointsAgree ==
    (IsSalesReport /\ res.op = "getPackageSalesByMonth") =>
        LET range == RangeReportOfYear(res.args[1])
        IN  /\ range.total_packages = res.out.total_packages
            /\ range.total_revenue = res.out.total_revenue
            /\ range.by_package_type = res.out.by_package_type
            /\ MapSeq(MonthCountRevenueCredits, range.by_month)
                   = FilterSeq(HasSales, res.out.by_month)

-----------------------------------------------------------------------------
(* Specification of the two computations of a year, over purchases of      *)
(* June 10 and of December 31 at noon                                      *)

InitYearEnd ==
    /\ creditBatches \in SeqUpTo(BuyerRows, MaxBatches)
    /\ packages \in BuyerPackageTables
    /\ profilesCache = Loaded(SampleDirectory)
    /\ tz = 0
    /\ profiles = <<>> /\ bookings = <<>> /\ sessions = <<>>
    /\ now = DbInstant(DateOf(2027, 1, 1))
    /\ loading = {}
    /\ pending = NoCall
    /\ res = Idle

NextYearEnd ==
    \/ \E batchesOk \in BOOLEAN, pkgOk \in BOOLEAN :
          GetPackageSalesByMonth(2026, batchesOk, pkgOk)
    \/ \E batchesOk \in BOOLEAN, pkgOk \in BOOLEAN :
          GetTopBuyers(2026, MaxLimit, batchesOk, pkgOk)
    \/ Deliver

SpecYearEnd == InitYearEnd /\ [][NextYearEnd]_vars

\* the credit batches created on a day of the year, from January 1 00:00
\* to the end of December 31
BatchesOfYear(year) ==
    {i \in DOMAIN creditBatches :
        /\ creditBatches[i].created_at >= DbInstant(DateOf(year, 1, 1))
        /\ creditBatches[i].created_at
               < DbInstant(DateOf(year, 12, 31)) + HoursPerDay}

PurchasesOf(e) == e.total_purchases

\* C29: getPackageSalesByMonth(year) and getTopBuyers(year, limit) count
\* every credit batch created on a day of the year, those created during
\* December 31 included: total_packages, and the purchases of the buyers
\* when the limit leaves no buyer out, are the number of those batches.
C29_LastDayOfYearCounted ==
    /\ (res.status = "ok" /\ res.op = "getPackageSalesByMonth")
          => res.out.total_packages = Cardinality(BatchesOfYear(res.args[1]))
    /\ (res.status = "ok" /\ res.op = "getTopBuyers"
            /\ DistinctUsers(creditBatches) <= res.args[2])
          => SumOver(PurchasesOf, res.out)
                 = Cardinality(BatchesOfYear(res.args[1]))

-----------------------------------------------------------------------------
(* The limit of the top buyers *)

\* the rows the top-buyer computation that produced res fetched
BuyersFetchedForRes ==
    IF res.op = "getTopBuyers"
    THEN CreatedBetween(creditBatches, DateOf(res.args[1], 1, 1),
                        DateOf(res.args[1], 12, 31))
    ELSE CreatedBetween(creditBatches, res.args[1], res.args[2])

\* the limit of the call that produced res
LimitOfRes == res.args[Len(res.args)]

\* the packages the computation that produced res had
PackagesForRes == IF "packages" \in res.failed THEN <<>> ELSE packages

\* what the fetched batches of a user cost
SpentBy(fetched, userId) ==
    LET pm == PackageMap(PackagesForRes)
    IN  SumSeq([i \in DOMAIN fetched |->
                   IF fetched[i].user_id = userId /\ fetched[i].package_id \in DOMAIN pm
                   THEN pm[fetched[i].package_id].price ELSE 0])

\* C30: for a limit >= 0 the list of top buyers has min(limit, number of
\* distinct user ids of the fetched batches) entries, no user id twice; it
\* is the beginning of the list every larger limit gives over the same
\* data; and no purchaser left out has spent more than the last one kept.
C30_LimitKeepsTheFirst ==
    (IsBuyerList /\ LimitOfRes >= 0) =>
        LET fetched == BuyersFetchedForRes
            purchasers == {fetched[i].user_id : i \in DOMAIN fetched}
            kept == {res.out[i].user_id : i \in DOMAIN res.out}
        IN  /\ Len(res.out) = Min2(LimitOfRes, Cardinality(purchasers))
            /\ Cardinality(kept) = Len(res.out)
            /\ kept \subseteq purchasers
            /\ \A larger \in (LimitOfRes + 1)..(MaxLimit + 1) :
                  res.out = SubSeq(TopBuyersList(fetched, PackagesForRes,
                                                 larger),
                                   1, Len(res.out))
            /\ \A i \in DOMAIN res.out :
                  res.out[i].total_spent = SpentBy(fetched, res.out[i].user_id)
            /\ Len(res.out) > 0 =>
                  \A u \in purchasers \ kept :
                      SpentBy(fetched, u) <= res.out[Len(res.out)].total_spent

\* three purchasers and a limit of 2: two are kept, and the one left out
\* has spent less than the second
C30_Witness ==
    /\ IsBuyerList
    /\ LimitOfRes = 2
    /\ Len(res.out) = 2
    /\ Cardinality({BuyersFetchedForRes[i].user_id :
                       i \in DOMAIN BuyersFetchedForRes}) = 3
    /\ \E i \in DOMAIN BuyersFetchedForRes :
          /\ \A j \in DOMAIN res.out :
                res.out[j].user_id # BuyersFetchedForRes[i].user_id
          /\ SpentBy(BuyersFetchedForRes, BuyersFetchedForRes[i].user_id)
                 < res.out[2].total_spent

====
